---- MODULE Spec2Model ----
(***************************************************************************)
(* SecureDigitalWallet: the admin submission queue (submissionStore.js on  *)
(* top of FirebaseService), the QR verification of AdminDashboard.jsx      *)
(* (handleQRScan / validateQRData), the QR payload parser (qrParser.js)    *)
(* and the two AES codecs (submissionStore.js, encryption.js).             *)
(*                                                                         *)
(* JavaScript values are records [t, v]: t is the typeof tag and v the     *)
(* characters of the value, a sequence of one-character strings, so that   *)
(* === is TLA+ equality.  Text (JSON, URLs, base64) is a sequence of       *)
(* one-character strings.                                                  *)
(***************************************************************************)
EXTENDS Integers, Sequences, FiniteSets, TLC

VARIABLES
  useLocalStorage, \* FirebaseService.useLocalStorage, set by connect()
  subscribers,     \* submissionStore.js subscribers: the callbacks, in push order
  documents,       \* the 'documents' collection, in find() order
  settings,        \* the 'settings' collection, in find() order
  store,           \* the 'submissions' collection, in find() order
  now,             \* Date.now()
  calls,           \* submissionStore calls in flight, each at an await point
  submissions,     \* AdminDashboard's React state `submissions`
  selected,        \* the id of the React state `selected` (dialog open), or NoId
  qrValidationResult, \* AdminDashboard's React state: the last verdict's message
  input,           \* argument of the pure function under check
  output           \* its result

vars == <<useLocalStorage, subscribers, documents, settings, store, now, calls, submissions, selected, qrValidationResult,
          input, output>>
pure == <<input, output>>

----------------------------------------------------------------------------
(* Bounds of the model *)

\* largest Date.now() value; ids and submittedAt are clock readings
MaxClock == 2
\* largest number of stored submissions
MaxSubs == 2
\* largest number of submissionStore calls in flight at once
MaxCalls == 1
\* longest string value of a payload given to parseQRData
MaxStrLen == 3
\* longest submissions list given to validateQRData
MaxList == 2

----------------------------------------------------------------------------
(* JavaScript values *)

Undefined == [t |-> "undefined", v |-> <<>>]
Str(s) == [t |-> "string", v |-> s]
True == [t |-> "boolean", v |-> <<"t">>]
False == [t |-> "boolean", v |-> <<"f">>]

\* JavaScript truthiness of a value (!!x)
Truthy(x) ==
  CASE x.t = "undefined" -> FALSE
    [] x.t = "string" -> x.v # <<>>
    [] x.t = "boolean" -> x = True
    [] x.t = "null" -> FALSE
    [] x.t = "number" -> x.v # <<"0">>
    [] OTHER -> TRUE

RECURSIVE SeqToSet(_)
SeqToSet(s) == IF s = <<>> THEN {} ELSE {Head(s)} \cup SeqToSet(Tail(s))

\* String(n) for a non-negative integer: its decimal digits
Digit(d) == <<"0", "1", "2", "3", "4", "5", "6", "7", "8", "9">>[d + 1]
RECURSIVE StringOf(_)
StringOf(n) == IF n < 10 THEN <<Digit(n)>> ELSE StringOf(n \div 10) \o <<Digit(n % 10)>>

\* String.prototype.toLowerCase, on the letters the model uses
LowerChar(c) ==
  CASE c = "A" -> "a" [] c = "B" -> "b" [] c = "C" -> "c" [] c = "J" -> "j"
    [] c = "N" -> "n" [] OTHER -> c
ToLowerCase(s) == [i \in 1..Len(s) |-> LowerChar(s[i])]

\* String.prototype.trim
RECURSIVE TrimStart(_)
TrimStart(s) == IF s # <<>> /\ Head(s) = " " THEN TrimStart(Tail(s)) ELSE s
RECURSIVE TrimEnd(_)
TrimEnd(s) == IF s # <<>> /\ s[Len(s)] = " " THEN TrimEnd(SubSeq(s, 1, Len(s) - 1)) ELSE s
Trim(s) == TrimEnd(TrimStart(s))

----------------------------------------------------------------------------
(* Characters.  A string is a sequence of one-character strings; Ascii is   *)
(* the table of the US-ASCII characters by code, a control character and    *)
(* the grave accent written as their codes in angle brackets.              *)

Ascii ==
  <<
     "<00>", "<01>", "<02>", "<03>", "<04>", "<05>", "<06>", "<07>",
     "<08>", "<09>", "<0a>", "<0b>", "<0c>", "<0d>", "<0e>", "<0f>",
     "<10>", "<11>", "<12>", "<13>", "<14>", "<15>", "<16>", "<17>",
     "<18>", "<19>", "<1a>", "<1b>", "<1c>", "<1d>", "<1e>", "<1f>",
     " ", "!", "\"", "#", "$", "%", "&", "'",
     "(", ")", "*", "+", ",", "-", ".", "/",
     "0", "1", "2", "3", "4", "5", "6", "7",
     "8", "9", ":", ";", "<", "=", ">", "?",
     "@", "A", "B", "C", "D", "E", "F", "G",
     "H", "I", "J", "K", "L", "M", "N", "O",
     "P", "Q", "R", "S", "T", "U", "V", "W",
     "X", "Y", "Z", "[", "\\", "]", "^", "_",
     "<60>", "a", "b", "c", "d", "e", "f", "g",
     "h", "i", "j", "k", "l", "m", "n", "o",
     "p", "q", "r", "s", "t", "u", "v", "w",
     "x", "y", "z", "{", "|", "}", "~", "<7f>">>

AsciiSet == SeqToSet(Ascii)

\* String.prototype.charCodeAt of an ASCII character
CodeOf == [c \in AsciiSet |-> CHOOSE n \in 0..127 : Ascii[n + 1] = c]

\* String.fromCharCode
CharOf(n) == Ascii[n + 1]

\* a code unit of a string that is no ASCII character: the Latin-1 character
\* atob makes of a byte above 127
HighChar == "<hi>"
\* U+FFFD, which URLSearchParams makes of a byte that is no UTF-8
ReplacementChar == "<fffd>"

----------------------------------------------------------------------------
(* JSON.stringify / JSON.parse on the flat objects of the application: a    *)
(* submission record or a QR payload with string fields.  An object is a   *)
(* function on ObjKeys; an absent property is Undefined.  A record can have *)
(* a number property id of its own: the field id, when it is there.         *)

ObjKeys == <<"username", "name", "dob", "address", "mobile", "aadhaar">>
KeySet == SeqToSet(ObjKeys)

KeyChars(k) ==
  CASE k = "username" -> <<"u", "s", "e", "r", "n", "a", "m", "e">>
    [] k = "name" -> <<"n", "a", "m", "e">>
    [] k = "dob" -> <<"d", "o", "b">>
    [] k = "address" -> <<"a", "d", "d", "r", "e", "s", "s">>
    [] k = "mobile" -> <<"m", "o", "b", "i", "l", "e">>
    [] k = "aadhaar" -> <<"a", "a", "d", "h", "a", "a", "r">>

EmptyObj == [k \in KeySet |-> Undefined]

\* C0 control characters, which JSON.parse rejects inside a string
ControlChars == {CharOf(n) : n \in 0..31}
IsControl(c) == c \in ControlChars

\* (mutant) a stringify that escapes nothing
QuoteNoEscape(s) == s

RECURSIVE Quote(_)
Quote(s) ==
  IF s = <<>> THEN <<>>
  ELSE (IF Head(s) \in {"\"", "\\"} THEN <<"\\", Head(s)>> ELSE <<Head(s)>>) \o Quote(Tail(s))

RECURSIVE Members(_, _, _)
Members(obj, i, first) ==
  IF i > Len(ObjKeys) THEN <<>>
  ELSE LET k == ObjKeys[i] IN
       IF obj[k].t = "undefined" THEN Members(obj, i + 1, first)
       ELSE (IF first THEN <<>> ELSE <<",">>)
            \o <<"\"">> \o KeyChars(k) \o <<"\"", ":", "\"">> \o Quote(obj[k].v) \o <<"\"">>
            \o Members(obj, i + 1, FALSE)

\* the member "id":n of an object that has the property
IdMember(obj) ==
  IF "id" \in DOMAIN obj THEN <<"\"", "i", "d", "\"", ":">> \o StringOf(obj.id) ELSE <<>>

JSONStringify(obj) ==
  LET members == Members(obj, 1, TRUE)
      id == IdMember(obj)
  IN <<"{">> \o members \o (IF members # <<>> /\ id # <<>> THEN <<",">> ELSE <<>>)
     \o id \o <<"}">>

ParseFail == [ok |-> FALSE, obj |-> EmptyObj]
StrFail == [ok |-> FALSE, s |-> <<>>, next |-> 0]

\* the characters of a string literal whose opening quote is before t[i]
RECURSIVE ReadString(_, _, _)
ReadString(t, i, acc) ==
  IF i > Len(t) THEN StrFail
  ELSE IF t[i] = "\"" THEN [ok |-> TRUE, s |-> acc, next |-> i + 1]
  ELSE IF t[i] = "\\" THEN
         IF i + 1 <= Len(t) /\ t[i + 1] \in {"\"", "\\"}
         THEN ReadString(t, i + 2, Append(acc, t[i + 1]))
         ELSE StrFail
  ELSE IF IsControl(t[i]) THEN StrFail
  ELSE ReadString(t, i + 1, Append(acc, t[i]))

\* a JSON number of digits only
IsNumberText(t) ==
  /\ t # <<>>
  /\ \A k \in 1..Len(t) : t[k] \in {"0", "1", "2", "3", "4", "5", "6", "7", "8", "9"}
  /\ (Len(t) > 1 => t[1] # "0")

\* the value of a text of digits
RECURSIVE NumberOf(_)
NumberOf(t) ==
  IF t = <<>> THEN 0
  ELSE NumberOf(SubSeq(t, 1, Len(t) - 1)) * 10 + (CHOOSE d \in 0..9 : Digit(d) = t[Len(t)])

\* the number whose digits start at t[i]: its value and the position after
\* it; ok = FALSE when t[i] is no digit or the number has a leading zero
RECURSIVE ReadNumber(_, _, _)
ReadNumber(t, i, acc) ==
  IF i <= Len(t) /\ t[i] \in {"0", "1", "2", "3", "4", "5", "6", "7", "8", "9"}
  THEN ReadNumber(t, i + 1, Append(acc, t[i]))
  ELSE [ok |-> IsNumberText(acc), n |-> NumberOf(acc), next |-> i]

\* the members "key":"value" from t[i] on, up to the closing brace at the end,
\* "id":n among them
RECURSIVE ReadMembers(_, _, _)
ReadMembers(t, i, obj) ==
  IF i > Len(t) \/ t[i] # "\"" THEN ParseFail
  ELSE LET key == ReadString(t, i + 1, <<>>) IN
       IF ~key.ok \/ key.next + 1 > Len(t) \/ t[key.next] # ":" THEN ParseFail
       ELSE IF key.s = <<"i", "d">> /\ t[key.next + 1] # "\"" THEN
         LET num == ReadNumber(t, key.next + 1, <<>>)
             obj2 == [id |-> num.n] @@ obj
         IN IF ~num.ok \/ num.next > Len(t) THEN ParseFail
            ELSE IF t[num.next] = "}" THEN
              IF num.next = Len(t) THEN [ok |-> TRUE, obj |-> obj2] ELSE ParseFail
            ELSE IF t[num.next] = "," THEN ReadMembers(t, num.next + 1, obj2)
            ELSE ParseFail
       ELSE IF t[key.next + 1] # "\"" THEN ParseFail
       ELSE LET val == ReadString(t, key.next + 2, <<>>)
                ks == {k \in KeySet : KeyChars(k) = key.s}
            IN IF ~val.ok \/ val.next > Len(t) \/ ks = {} THEN ParseFail
               ELSE LET k == CHOOSE x \in ks : TRUE
                        obj2 == [obj EXCEPT ![k] = Str(val.s)]
                    IN IF t[val.next] = "}" THEN
                         IF val.next = Len(t) THEN [ok |-> TRUE, obj |-> obj2] ELSE ParseFail
                       ELSE IF t[val.next] = "," THEN ReadMembers(t, val.next + 1, obj2)
                       ELSE ParseFail

\* JSON.parse: ok = FALSE stands for the SyntaxError it throws; obj is the
\* object, or the number, the string or null the text is the literal of
JSONParse(t) ==
  IF IsNumberText(t) THEN [ok |-> TRUE, obj |-> [t |-> "number", v |-> t]]
  ELSE IF t = <<"n", "u", "l", "l">> THEN [ok |-> TRUE, obj |-> [t |-> "null", v |-> <<>>]]
  ELSE IF t # <<>> /\ t[1] = "\"" THEN
         LET lit == ReadString(t, 2, <<>>) IN
         IF lit.ok /\ lit.next = Len(t) + 1 THEN [ok |-> TRUE, obj |-> Str(lit.s)]
         ELSE ParseFail
  ELSE IF Len(t) < 2 \/ t[1] # "{" THEN ParseFail
  ELSE IF t = <<"{", "}">> THEN [ok |-> TRUE, obj |-> EmptyObj]
  ELSE ReadMembers(t, 2, EmptyObj)

----------------------------------------------------------------------------
(* The two codecs.  CryptoJS.AES with a passphrase yields the plaintext of *)
(* a ciphertext string under the passphrase it was made with.              *)

\* submissionStore.js ENCRYPTION_KEY
StoreKey == "secure-digital-wallet-2024"
\* encryption.js ENCRYPTION_KEY
WalletKey == "SecureDigitalWallet2024!@#$%^&*()_+"

Null == [t |-> "null", v |-> <<>>]

\* what toString(CryptoJS.enc.Utf8) makes of bytes that are no UTF-8: the
\* Error 'Malformed UTF-8 data'
Malformed == [ok |-> FALSE, text |-> <<>>]

\* A ciphertext string is a record: key is the passphrase it was made with
\* ("" when it was cut or changed afterwards), pt the plaintext, and garbage
\* what it decrypts to under any other passphrase.  The cipher has no
\* integrity check and Pkcs7.unpad takes the last byte as it is, so that the
\* garbage can be the Error, the empty text, or any text.
NullBlob == [t |-> "null", key |-> "", pt |-> <<>>, garbage |-> Malformed]

\* CryptoJS.AES.encrypt(text, key).toString()
AESEncrypt(text, key) == [t |-> "string", key |-> key, pt |-> text, garbage |-> Malformed]
\* CryptoJS.AES.decrypt(blob, key).toString(CryptoJS.enc.Utf8): ok = FALSE is
\* the exception of a malformed result
AESDecrypt(blob, key) ==
  IF blob.t # "string" THEN Malformed
  ELSE IF blob.key = key THEN [ok |-> TRUE, text |-> blob.pt]
  ELSE blob.garbage

\* a parsed value that is no object: spreading it adds no field
IsPrimitive(x) == DOMAIN x = {"t", "v"}

\* JSON.stringify throws on an object that refers to itself
StringifyThrows(data) == \E k \in KeySet : data[k].t = "circular"

\* (mutant) encryptSubmissionData that encrypts whatever stringify gives
EncryptNoCatch(data) == AESEncrypt(JSONStringify(data), StoreKey)

\* submissionStore.js encryptSubmissionData: the ciphertext, or null
EncryptSubmissionData(data) ==
  IF StringifyThrows(data) THEN NullBlob
  ELSE AESEncrypt(JSONStringify(data), StoreKey)

\* submissionStore.js decryptSubmissionData: ok = FALSE is its null
DecryptSubmissionData(encryptedData) ==
  LET d == AESDecrypt(encryptedData, StoreKey) IN
  IF ~d.ok THEN ParseFail ELSE JSONParse(d.text)

\* encryption.js encryptData: ok = FALSE is the Error it throws
EncryptData(data) ==
  IF StringifyThrows(data) THEN [ok |-> FALSE, blob |-> NullBlob]
  ELSE [ok |-> TRUE, blob |-> AESEncrypt(JSONStringify(data), WalletKey)]

\* encryption.js decryptData: ok = FALSE is the Error it throws
DecryptData(encryptedData) ==
  LET d == AESDecrypt(encryptedData, WalletKey) IN
  IF ~d.ok THEN ParseFail ELSE JSONParse(d.text)

\* a field of the form { encrypted: true, data }
EncryptedField(blob) == [encrypted |-> TRUE, data |-> blob]
IsEncryptedField(x) == "encrypted" \in DOMAIN x /\ x.encrypted

DecryptionError ==
  Str(<<"D", "e", "c", "r", "y", "p", "t", "i", "o", "n", " ", "E", "r", "r", "o", "r">>)

\* encryption.js decryptSubmissionData: the submission with each encrypted
\* field replaced by what decryptData returns, or by 'Decryption Error' when
\* decryptData throws
DecryptSubmissionFields(encryptedSubmission) ==
  [field \in KeySet |->
     IF IsEncryptedField(encryptedSubmission[field])
     THEN LET d == DecryptData(encryptedSubmission[field].data) IN
          IF d.ok THEN d.obj ELSE DecryptionError
     ELSE encryptedSubmission[field]]

----------------------------------------------------------------------------
(* FirebaseService: a collection is the sequence of its documents in the   *)
(* order find() returns them.  A query or a patch is a record.             *)

Matches(item, queryData) ==
  \A k \in DOMAIN queryData : k \in DOMAIN item /\ item[k] = queryData[k]

RECURSIVE FindIndex(_, _, _)
FindIndex(items, queryData, i) ==
  IF i > Len(items) THEN 0
  ELSE IF Matches(items[i], queryData) THEN i
  ELSE FindIndex(items, queryData, i + 1)

RemoveAt(items, i) == SubSeq(items, 1, i - 1) \o SubSeq(items, i + 1, Len(items))

\* `${Date.now()}_${Math.random().toString(36).substr(2, 9)}`
GenId(clock, rand) == StringOf(clock) \o <<"_">> \o rand

\* _executeLocalStorageOperation 'find'
LocalFind(items, queryData) == SelectSeq(items, LAMBDA item : Matches(item, queryData))

\* _executeLocalStorageOperation 'insertOne'
LocalInsertOne(items, data, clock, rand) ==
  LET newItem == [_id |-> IF "_id" \in DOMAIN data /\ data._id # <<>>
                          THEN data._id ELSE GenId(clock, rand)] @@ data
  IN [items |-> Append(items, newItem), ok |-> TRUE, insertedId |-> newItem._id]

\* (mutant) updateOne that merges the patch into every document
LocalUpdateOneAll(items, queryData, patch, clock, rand) ==
  [items |-> [k \in 1..Len(items) |-> patch @@ items[k]],
   ok |-> TRUE, matchedCount |-> 1, upsertedCount |-> 0]

\* _executeLocalStorageOperation 'updateOne'
LocalUpdateOne(items, queryData, patch, clock, rand) ==
  LET updateIndex == FindIndex(items, queryData, 1) IN
  IF updateIndex >= 1
  THEN [items |-> [items EXCEPT ![updateIndex] = patch @@ items[updateIndex]],
        ok |-> TRUE, matchedCount |-> 1, upsertedCount |-> 0]
  ELSE [items |-> Append(items, [_id |-> GenId(clock, rand)] @@ patch @@ queryData),
        ok |-> TRUE, matchedCount |-> 0, upsertedCount |-> 1]

\* _executeLocalStorageOperation 'deleteOne'
LocalDeleteOne(items, queryData) ==
  LET deleteIndex == FindIndex(items, queryData, 1) IN
  IF deleteIndex >= 1
  THEN [items |-> RemoveAt(items, deleteIndex), ok |-> TRUE, deletedCount |-> 1]
  ELSE [items |-> items, ok |-> TRUE, deletedCount |-> 0]

\* _executeFirestoreOperation 'insertOne': setDoc at the document id replaces
\* the document that has it
FirestoreInsertOne(items, data, clock, rand) ==
  LET docId == IF "_id" \in DOMAIN data /\ data._id # <<>>
               THEN data._id ELSE GenId(clock, rand)
      newDoc == [_id |-> docId] @@ data
      at == FindIndex(items, [_id |-> docId], 1)
  IN [items |-> IF at >= 1 THEN [items EXCEPT ![at] = newDoc] ELSE Append(items, newDoc),
      ok |-> TRUE, insertedId |-> docId]

\* Object.keys(queryData)[0]: the objects of the model list their fields in
\* this order
FieldOrder == <<"key", "value", "id", "_id", "username">>
QueryKey(queryData) ==
  LET at == CHOOSE i \in 1..Len(FieldOrder) :
              /\ FieldOrder[i] \in DOMAIN queryData
              /\ \A j \in 1..(i - 1) : FieldOrder[j] \notin DOMAIN queryData
  IN FieldOrder[at]

\* query(collRef, where(queryKey, '==', queryValue)) on the first key of the
\* query, the other keys being ignored
FirestoreWhere(queryData) ==
  LET queryKey == QueryKey(queryData) IN [k \in {queryKey} |-> queryData[k]]

\* queryData._id is truthy
HasId(queryData) == "_id" \in DOMAIN queryData /\ queryData._id # <<>>

\* _executeFirestoreOperation 'find': all documents, or those of the where
FirestoreFind(items, queryData) ==
  IF DOMAIN queryData = {} THEN items
  ELSE SelectSeq(items, LAMBDA item : Matches(item, FirestoreWhere(queryData)))

\* _executeLocalStorageOperation 'findOne': found = FALSE is undefined
LocalFindOne(items, queryData) ==
  LET at == FindIndex(items, queryData, 1) IN
  IF at >= 1 THEN [found |-> TRUE, doc |-> items[at]] ELSE [found |-> FALSE]

\* _executeFirestoreOperation 'findOne': by document id, or the first
\* document of the where; found = FALSE is null
FirestoreFindOne(items, queryData) ==
  LET at == FindIndex(items, IF HasId(queryData) THEN [_id |-> queryData._id]
                             ELSE FirestoreWhere(queryData), 1)
  IN IF at >= 1 THEN [found |-> TRUE, doc |-> items[at]] ELSE [found |-> FALSE]

\* _executeFirestoreOperation 'updateOne': the document of queryData._id, or
\* the first document of the where.  updateDoc fails (ok = FALSE) when no
\* document has the id; without an id and without a match a new document is
\* set
FirestoreUpdateOne(items, queryData, patch, clock, rand) ==
  LET at == FindIndex(items, IF HasId(queryData) THEN [_id |-> queryData._id]
                             ELSE FirestoreWhere(queryData), 1)
  IN IF at >= 1
     THEN [items |-> [items EXCEPT ![at] = patch @@ items[at]],
           ok |-> TRUE, matchedCount |-> 1, upsertedCount |-> 0]
     ELSE IF HasId(queryData)
     THEN [items |-> items, ok |-> FALSE, matchedCount |-> 0, upsertedCount |-> 0]
     ELSE [items |-> Append(items, [_id |-> GenId(clock, rand)] @@ patch @@ queryData),
           ok |-> TRUE, matchedCount |-> 0, upsertedCount |-> 1]

\* _executeFirestoreOperation 'deleteOne': deleteDoc of queryData._id, or of
\* the first document of the where
FirestoreDeleteOne(items, queryData) ==
  IF HasId(queryData)
  THEN LET at == FindIndex(items, [_id |-> queryData._id], 1) IN
       [items |-> IF at >= 1 THEN RemoveAt(items, at) ELSE items,
        ok |-> TRUE, deletedCount |-> 1]
  ELSE LET at == FindIndex(items, FirestoreWhere(queryData), 1) IN
       [items |-> IF at >= 1 THEN RemoveAt(items, at) ELSE items,
        ok |-> TRUE, deletedCount |-> IF at >= 1 THEN 1 ELSE 0]

\* _executeOperation: the backend connect() chose
InsertOne(local, items, data, clock, rand) ==
  IF local THEN LocalInsertOne(items, data, clock, rand)
  ELSE FirestoreInsertOne(items, data, clock, rand)
UpdateOne(local, items, queryData, patch, clock, rand) ==
  IF local THEN LocalUpdateOne(items, queryData, patch, clock, rand)
  ELSE FirestoreUpdateOne(items, queryData, patch, clock, rand)
DeleteOne(local, items, queryData) ==
  IF local THEN LocalDeleteOne(items, queryData) ELSE FirestoreDeleteOne(items, queryData)
Find(local, items, queryData) ==
  IF local THEN LocalFind(items, queryData) ELSE FirestoreFind(items, queryData)
FindOne(local, items, queryData) ==
  IF local THEN LocalFindOne(items, queryData) ELSE FirestoreFindOne(items, queryData)

\* FirebaseService.addSubmission: the document handed to insertOne
ServiceSubmission(submissionData, clock) ==
  LET submissionId == IF submissionData.id # 0 THEN submissionData.id ELSE clock IN
  [id |-> submissionId,
   _id |-> StringOf(submissionId),
   submittedAt |-> IF submissionData.submittedAt # 0 THEN submissionData.submittedAt ELSE clock]
  @@ submissionData

----------------------------------------------------------------------------
(* submissionStore *)

\* getSubmissions: one entry per stored submission that decrypts
\* { id, ...decryptedData, submittedAt, status: status || 'pending' }
Entry(submission) ==
  LET decryptedData == DecryptSubmissionData(submission.encryptedData).obj IN
  [submittedAt |-> submission.submittedAt,
   status |-> IF submission.status # "" THEN submission.status ELSE "pending"]
  @@ (IF IsPrimitive(decryptedData) THEN EmptyObj ELSE decryptedData)
  @@ [id |-> submission.id]

\* the two tests of getSubmissions: encryptedData and decryptedData are truthy
Decrypts(submission) ==
  LET d == DecryptSubmissionData(submission.encryptedData) IN
  /\ submission.encryptedData.t = "string"
  /\ d.ok
  /\ (IsPrimitive(d.obj) => Truthy(d.obj))

GetSubmissions(items) ==
  LET ok == SelectSeq(items, Decrypts) IN [i \in 1..Len(ok) |-> Entry(ok[i])]

----------------------------------------------------------------------------
(* AdminDashboard.validateQRData.  A parsed payload is a record: the six   *)
(* string properties as JavaScript values, verifiedAt as the Date made of  *)
(* it (valid = FALSE: Invalid Date, of an absent or unparseable value) and *)
(* verificationRequested as a function on ReqKeys (Undefined where the     *)
(* payload names no such attribute, or has no verificationRequested).      *)

\* 1000 * 60 * 60
MsPerHour == 3600000
\* hoursDiff > 24
QRValidHours == 24

NA == Str(<<"N", "/", "A">>)
NotFound == Str(<<"N", "o", "t", " ", "f", "o", "u", "n", "d">>)

Attrs == {"name", "age", "mobile", "aadhaar", "address"}
ReqKeys == Attrs \cup {"username"}
NoRequest == [a \in ReqKeys |-> Undefined]

\* x.toLowerCase().trim() of a string value
Norm(x) == Trim(ToLowerCase(x.v))

NameMatch(submission, parsedData) ==
  parsedData.name.t = "string" /\ Norm(submission.name) = Norm(parsedData.name)

DobMatch(submission, parsedData) ==
  \/ submission.dob = parsedData.dob
  \/ (submission.dob = NA /\ ~Truthy(parsedData.dob))
  \/ (submission.dob = NotFound /\ ~Truthy(parsedData.dob))
  \/ (~Truthy(parsedData.dob) /\ (submission.dob = NA \/ submission.dob = NotFound))

Count(b) == IF b THEN 1 ELSE 0

MatchCount(submission, parsedData) ==
  Count(NameMatch(submission, parsedData))
  + Count(DobMatch(submission, parsedData))
  + Count(submission.aadhaar = parsedData.aadhaar)
  + Count(submission.mobile = parsedData.mobile)
  + Count(submission.username = parsedData.username)

\* (mutant) a find callback content with 2 out of 5
IsMatchTwoOfFive(submission, parsedData) == MatchCount(submission, parsedData) >= 2

\* the find callback: at least 3 out of 5 key attributes match
IsMatch(submission, parsedData) == MatchCount(submission, parsedData) >= 3

\* submission.name.toLowerCase() throws a TypeError unless name is a string,
\* parsedData.name throws one when parsedData is null, and
\* parsedData.name?.toLowerCase() unless name is a string, undefined or null
CallbackThrows(submission, parsedData) ==
  \/ submission.name.t # "string"
  \/ IF parsedData = Null THEN TRUE
     ELSE parsedData.name.t \notin {"string", "undefined", "null"}

\* submissions.find: the index of the first match (0: none, -1: the callback
\* threw before a match was found)
RECURSIVE FindMatch(_, _, _)
FindMatch(subs, parsedData, i) ==
  IF i > Len(subs) THEN 0
  ELSE IF CallbackThrows(subs[i], parsedData) THEN -1
  ELSE IF IsMatch(subs[i], parsedData) THEN i
  ELSE FindMatch(subs, parsedData, i + 1)

\* (mutant) hoursDiff >= 24
IsExpiredAt24h(parsedData, clock) ==
  /\ parsedData.verifiedAt.valid
  /\ clock - parsedData.verifiedAt.time >= QRValidHours * MsPerHour

\* hoursDiff > 24, false for the NaN of an Invalid Date
IsExpired(parsedData, clock) ==
  /\ parsedData.verifiedAt.valid
  /\ clock - parsedData.verifiedAt.time > QRValidHours * MsPerHour

\* (mutant) verificationRequested?.attr === true
RequestedIfTrue(parsedData, attr) ==
  IF parsedData.verificationRequested[attr] = True THEN True ELSE False

\* verificationRequested?.attr || false
Requested(parsedData, attr) ==
  IF Truthy(parsedData.verificationRequested[attr])
  THEN parsedData.verificationRequested[attr] ELSE False

AttributeVerification(m, parsedData) ==
  [a \in Attrs |->
     CASE a = "name" ->
            [verified |-> NameMatch(m, parsedData), scanned |-> parsedData.name,
             stored |-> m.name, requested |-> Requested(parsedData, "name")]
       [] a = "age" ->
            [verified |-> DobMatch(m, parsedData), scanned |-> parsedData.dob,
             stored |-> m.dob, requested |-> Requested(parsedData, "age")]
       [] a = "mobile" ->
            [verified |-> parsedData.mobile = m.mobile, scanned |-> parsedData.mobile,
             stored |-> m.mobile, requested |-> Requested(parsedData, "mobile")]
       [] a = "aadhaar" ->
            [verified |-> parsedData.aadhaar = m.aadhaar, scanned |-> parsedData.aadhaar,
             stored |-> m.aadhaar, requested |-> Requested(parsedData, "aadhaar")]
       [] a = "address" ->
            [verified |-> parsedData.address = m.address, scanned |-> parsedData.address,
             stored |-> m.address, requested |-> Requested(parsedData, "address")]]

\* error.message.includes(part)
Includes(text, part) ==
  \E i \in 0..(Len(text) - Len(part)) : SubSeq(text, i + 1, i + Len(part)) = part

UnexpectedToken ==
  <<"U", "n", "e", "x", "p", "e", "c", "t", "e", "d", " ", "t", "o", "k",
    "e", "n">>
NoDataParameter ==
  <<"N", "o", " ", "d", "a", "t", "a", " ", "p", "a", "r", "a", "m", "e",
    "t", "e", "r">>

\* the message of the catch block: "error: json" is 'Invalid QR code format.
\* The QR code does not contain valid JSON data.', "error: param" is '... The
\* QR code URL does not contain a data parameter.', "error: parse" is '...
\* Parse error: ' followed by the error's message
ErrorMessage(error) ==
  IF Includes(error.message.v, UnexpectedToken) THEN "error: json"
  ELSE IF Includes(error.message.v, NoDataParameter) THEN "error: param"
  ELSE "error: parse"

ErrorMessages == {"error: json", "error: param", "error: parse"}

\* the verdict of the catch block
ErrorVerdict(error) ==
  [isValid |-> FALSE, submission |-> Null, scannedData |-> Null,
   message |-> ErrorMessage(error), attributeVerification |-> Null]

\* the errors of the try block: the Error of parseQRData and the TypeError
\* of a property read or a method call, each with its message
ParseError ==
  [name |-> "Error",
   message |-> Str(
     <<"U", "n", "a", "b", "l", "e", " ", "t", "o", " ", "p", "a", "r", "s",
       "e", " ", "Q", "R", " ", "d", "a", "t", "a", " ", "a", "s", " ", "J",
       "S", "O", "N">>)]
TypeError ==
  [name |-> "TypeError",
   message |-> Str(
     <<"C", "a", "n", "n", "o", "t", " ", "r", "e", "a", "d", " ", "p", "r",
       "o", "p", "e", "r", "t", "i", "e", "s", " ", "o", "f", " ", "u", "n",
       "d", "e", "f", "i", "n", "e", "d">>)]

\* validateQRData threw: no verdict
Thrown ==
  [isValid |-> FALSE, submission |-> Null, scannedData |-> Null,
   message |-> "thrown", attributeVerification |-> Null]

\* (mutant) a catch block that throws the error again
Rethrown(error) == Thrown

\* the catch block: error.message.includes(...) needs the message to be a
\* string
Caught(error) == IF error.message.t = "string" THEN ErrorVerdict(error) ELSE Thrown

\* validateQRData(qrData) with parsed = parseQRData(qrData) (ok = FALSE: it
\* threw), subs the React state `submissions` and clock the value of new Date().
\* message: "verified" is 'QR code data matches the submission records. ...',
\* "discrepancy" is '... some data discrepancies detected.', "expired" is
\* 'QR code has expired. ...', "nomatch" is 'No matching submission found ...'
ValidateQRData(parsed, subs, clock) ==
  IF ~parsed.ok THEN Caught(ParseError)
  ELSE LET parsedData == parsed.data
           at == FindMatch(subs, parsedData, 1)
       IN IF at = -1 THEN Caught(TypeError)
          ELSE IF at = 0 THEN
            [isValid |-> FALSE, submission |-> Null, scannedData |-> parsedData,
             message |-> "nomatch", attributeVerification |-> Null]
          ELSE LET matchingSubmission == subs[at] IN
            IF IsExpired(parsedData, clock) THEN
              [isValid |-> FALSE, submission |-> matchingSubmission,
               scannedData |-> parsedData, message |-> "expired",
               attributeVerification |-> Null]
            ELSE LET isDataValid ==
                       /\ NameMatch(matchingSubmission, parsedData)
                       /\ DobMatch(matchingSubmission, parsedData)
                       /\ parsedData.aadhaar = matchingSubmission.aadhaar
                       /\ parsedData.mobile = matchingSubmission.mobile
                       /\ parsedData.username = matchingSubmission.username
                 IN [isValid |-> isDataValid, submission |-> matchingSubmission,
                     scannedData |-> parsedData,
                     message |-> IF isDataValid THEN "verified" ELSE "discrepancy",
                     attributeVerification |->
                       AttributeVerification(matchingSubmission, parsedData)]

\* the attribute verdict the dashboard displays:
\* Object.entries(attributeVerification).filter(([, details]) => details.requested)
Displayed(result) ==
  IF result.attributeVerification = Null THEN {}
  ELSE {a \in Attrs : Truthy(result.attributeVerification[a].requested)}

\* (mutant) a handleQRScan that updates whenever a submission matched
AutoVerifiesAnyMatch(result) == result.submission # Null

\* handleQRScan: whether it calls updateSubmissionStatus(submission.id, 'verified')
AutoVerifies(result) == result.isValid /\ result.submission # Null

----------------------------------------------------------------------------
(* The inputs of the queue's state machine *)

Rec(username, name, dob, address, mobile, aadhaar) ==
  [username |-> Str(username), name |-> Str(name), dob |-> dob,
   address |-> Str(address), mobile |-> Str(mobile), aadhaar |-> Str(aadhaar)]

\* two users' documents, which agree on the mobile number only
RecA == Rec(<<"u">>, <<"A", "b">>, NA, <<"x">>, <<"7">>, <<"3">>)
RecB == Rec(<<"v">>, <<"C">>, Str(<<"1">>), <<"y">>, <<"7">>, <<"4">>)
Records == {RecA, RecB}

\* an object JSON.stringify throws on
Circular == [RecA EXCEPT !["address"] = [t |-> "circular", v |-> <<>>]]

AddInputs == Records \cup {Circular}

Statuses == {"pending", "verified", "rejected"}

AllRequested == [a \in ReqKeys |-> IF a \in Attrs THEN True ELSE Undefined]

\* the payload of a QR generated from rec at clock value time
PayloadOf(rec, valid, time, req) ==
  rec @@ [verifiedAt |-> [valid |-> valid, time |-> time], verificationRequested |-> req]

\* handleTestQRScanMismatch: mobile and aadhaar differ
Mismatch(payload) ==
  [payload EXCEPT !["mobile"] = Str(<<"9">>), !["aadhaar"] = Str(<<"9">>)]

\* what parseQRData makes of the scanned content: the Error, or a payload: of
\* each record a fresh one, of RecA one without a date, an expired one and one
\* with two fields changed, and a stranger's
ScanInputs(clock) ==
  {[ok |-> FALSE, data |-> Null]}
  \cup {[ok |-> TRUE, data |-> PayloadOf(r, TRUE, clock, AllRequested)] : r \in Records}
  \cup {[ok |-> TRUE, data |-> PayloadOf(RecA, FALSE, 0, AllRequested)],
        [ok |-> TRUE,
         data |-> PayloadOf(RecA, TRUE, clock - QRValidHours * MsPerHour - 1, AllRequested)],
        [ok |-> TRUE, data |-> Mismatch(PayloadOf(RecA, TRUE, clock, AllRequested))],
        [ok |-> TRUE,
         data |-> PayloadOf(Rec(<<"w">>, <<"D">>, Str(<<"2">>), <<"z">>, <<"8">>, <<"5">>),
                            TRUE, clock, AllRequested)]}

RandSuffixes == {<<"r">>}

----------------------------------------------------------------------------
(* The queue's state machine: the submissionStore calls, each a chain of   *)
(* steps between its awaits, and the dashboard's handlers.                 *)

\* no submission selected (selected is null)
NoId == 0

NoDoc == [id |-> 0, _id |-> <<>>, encryptedData |-> NullBlob, submittedAt |-> 0, status |-> ""]

Call(op, pc, id, status, doc, src, matched) ==
  [op |-> op, pc |-> pc, id |-> id, status |-> status, doc |-> doc, snap |-> <<>>,
   src |-> src, matched |-> matched]

\* the callback the dashboard's mount effect subscribes
SetSubmissions == "setSubmissions"

\* e1 and e2 are entries of one submission: they differ in status at most
SameSubmission(e1, e2) == [e1 EXCEPT !.status = ""] = [e2 EXCEPT !.status = ""]

\* (history) the entry is of a submission the store holds
InStore(entry, items) ==
  \E k \in 1..Len(items) : Decrypts(items[k]) /\ SameSubmission(Entry(items[k]), entry)

\* the adds in flight that have not inserted yet
PendingAdds == Cardinality({i \in 1..Len(calls) : calls[i].pc = "insert"})

Init ==
  /\ useLocalStorage \in BOOLEAN
  /\ subscribers = <<SetSubmissions>>
  /\ documents = <<>>
  /\ settings = <<>>
  /\ store = <<>>
  /\ now = 1
  /\ calls = <<>>
  /\ submissions = <<>>
  /\ selected = NoId
  /\ qrValidationResult = ""
  /\ input = Null
  /\ output = Null

\* time passes
Tick ==
  /\ now < MaxClock
  /\ now' = now + 1
  /\ UNCHANGED <<useLocalStorage, subscribers, documents, settings, store, calls, submissions, selected, qrValidationResult, pure>>

\* submissionStore.addSubmission up to its await of firebaseService.addSubmission:
\* encrypt, throw if that failed, build the submission
AddSubmission(submissionData) ==
  /\ Len(calls) < MaxCalls
  /\ Len(store) + PendingAdds < MaxSubs
  /\ LET encryptedData == EncryptSubmissionData(submissionData) IN
     IF encryptedData.t = "null"
     THEN UNCHANGED calls
     ELSE calls' = Append(calls,
             Call("add", "insert", now, "pending",
                    [id |-> now, encryptedData |-> encryptedData,
                     submittedAt |-> now, status |-> "pending"], "upload", Null))
  /\ UNCHANGED <<useLocalStorage, subscribers, documents, settings, store, now, submissions, selected, qrValidationResult, pure>>

\* firebaseService.addSubmission: insertOne
AddInsert(i) ==
  /\ calls[i].op = "add" /\ calls[i].pc = "insert"
  /\ \E rand \in RandSuffixes :
       store' = InsertOne(useLocalStorage, store,
                          ServiceSubmission(calls[i].doc, now), now, rand).items
  /\ calls' = [calls EXCEPT ![i].pc = "notify"]
  /\ UNCHANGED <<useLocalStorage, subscribers, documents, settings, now, submissions, selected, qrValidationResult, pure>>

\* notifySubscribers: await this.getSubmissions()
NotifyRead(i) ==
  /\ calls[i].pc = "notify"
  /\ calls' = [calls EXCEPT ![i].pc = "deliver", ![i].snap = GetSubmissions(store)]
  /\ UNCHANGED <<useLocalStorage, subscribers, documents, settings, store, now, submissions, selected, qrValidationResult, pure>>

\* notifySubscribers: subscribers.forEach(callback => callback(submissions)),
\* the dashboard's callback being setSubmissions; the call is over
Deliver(i) ==
  /\ calls[i].pc = "deliver"
  /\ submissions' = calls[i].snap
  /\ calls' = RemoveAt(calls, i)
  /\ UNCHANGED <<useLocalStorage, subscribers, documents, settings, store, now, selected, qrValidationResult, pure>>

\* the dashboard's mount effect: loadSubmissions
LoadSubmissions ==
  /\ Len(calls) < MaxCalls
  /\ calls' = Append(calls, Call("load", "notify", 0, "", NoDoc, "mount", Null))
  /\ UNCHANGED <<useLocalStorage, subscribers, documents, settings, store, now, submissions, selected, qrValidationResult, pure>>

\* updateSubmissionStatus: getAllSubmissions and find by id; no submission of
\* that id ends the call
UpdateRead(i) ==
  /\ calls[i].op = "update" /\ calls[i].pc = "read"
  /\ LET at == FindIndex(store, [id |-> calls[i].id], 1) IN
     IF at = 0
     THEN /\ calls' = RemoveAt(calls, i)
     ELSE /\ calls' = [calls EXCEPT ![i].pc = "write",
                                    ![i].doc = [store[at] EXCEPT !.status = calls[i].status]]
  /\ UNCHANGED <<useLocalStorage, subscribers, documents, settings, store, now, submissions, selected, qrValidationResult, pure>>

\* firebaseService.updateSubmission: updateOne({_id: String(id)}, {$set: submission});
\* a failed updateDoc rejects the call
UpdateWrite(i) ==
  /\ calls[i].op = "update" /\ calls[i].pc = "write"
  /\ \E rand \in RandSuffixes :
       LET r == UpdateOne(useLocalStorage, store, [_id |-> StringOf(calls[i].id)],
                          calls[i].doc, now, rand)
       IN /\ store' = r.items
          /\ IF r.ok
             THEN /\ calls' = [calls EXCEPT ![i].pc = "notify"]
             ELSE /\ calls' = RemoveAt(calls, i)
  /\ UNCHANGED <<useLocalStorage, subscribers, documents, settings, now, submissions, selected, qrValidationResult, pure>>

\* submissionStore.deleteSubmission: deleteOne({_id: String(id)})
DeleteSubmission(submissionId) ==
  /\ Len(calls) < MaxCalls
  /\ store' = DeleteOne(useLocalStorage, store, [_id |-> StringOf(submissionId)]).items
  /\ calls' = Append(calls, Call("delete", "notify", submissionId, "", NoDoc, "api", Null))
  /\ UNCHANGED <<useLocalStorage, subscribers, documents, settings, now, submissions, selected, qrValidationResult, pure>>

\* handleView: setSelected(submission), the dialog opens.  Of the selected
\* submission the handlers read the id only, which is what the model keeps.
HandleView(k) ==
  /\ selected = NoId
  /\ selected' = submissions[k].id
  /\ UNCHANGED <<useLocalStorage, subscribers, documents, settings, store, now, calls, submissions, qrValidationResult, pure>>

\* handleVerify / handleReject: updateSubmissionStatus(selected.id, status),
\* the dialog closes
HandleDecision(status) ==
  /\ selected # NoId
  /\ Len(calls) < MaxCalls
  /\ calls' = Append(calls, Call("update", "read", selected, status, NoDoc,
                                 "dialog", Null))
  /\ selected' = NoId
  /\ UNCHANGED <<useLocalStorage, subscribers, documents, settings, store, now, submissions, qrValidationResult, pure>>

\* handleQRScan: validateQRData, and on a valid verdict
\* updateSubmissionStatus(submission.id, 'verified')
HandleQRScan(parsed) ==
  LET validationResult == ValidateQRData(parsed, submissions, now) IN
  /\ IF AutoVerifies(validationResult)
     THEN /\ Len(calls) < MaxCalls
          /\ calls' = Append(calls,
               Call("update", "read", validationResult.submission.id, "verified", NoDoc,
                    "scan",
                    IF InStore(validationResult.submission, store)
                    THEN validationResult.submission ELSE Null))
     ELSE UNCHANGED calls
  /\ qrValidationResult' = validationResult.message
  /\ UNCHANGED <<useLocalStorage, subscribers, documents, settings, store, now, submissions, selected, pure>>

Next ==
  \/ Tick
  \/ \E submissionData \in AddInputs : AddSubmission(submissionData)
  \/ \E i \in 1..Len(calls) : AddInsert(i)
  \/ \E i \in 1..Len(calls) : NotifyRead(i)
  \/ \E i \in 1..Len(calls) : Deliver(i)
  \/ LoadSubmissions
  \/ \E i \in 1..Len(calls) : UpdateRead(i)
  \/ \E i \in 1..Len(calls) : UpdateWrite(i)
  \/ \E submissionId \in 1..MaxClock : DeleteSubmission(submissionId)
  \/ \E k \in 1..Len(submissions) : HandleView(k)
  \/ \E status \in {"verified", "rejected"} : HandleDecision(status)
  \/ \E parsed \in ScanInputs(now) : HandleQRScan(parsed)

Spec == Init /\ [][Next]_vars

----------------------------------------------------------------------------
(* The queue's claims *)

\* C1: after addSubmission's insert, getSubmissions returns all the entries it
\* returned before plus exactly one new entry, whose status is 'pending', for
\* any prior queue contents and any clock value.
C1_AddAddsOnePending ==
  [][\A i \in 1..Len(calls) :
       AddInsert(i) =>
         LET before == GetSubmissions(store)
             after == GetSubmissions(store')
         IN /\ Len(after) = Len(before) + 1
            /\ \E k \in 1..Len(after) :
                 after[k].status = "pending" /\ RemoveAt(after, k) = before]_vars

\* C2: after updateSubmissionStatus(id, 'verified') has written, for an id in
\* the queue, getSubmissions reports 'verified' for that id and every other
\* submission (id, status, submittedAt, decrypted data) is unchanged: the
\* entries before and after the write are the same but for one entry, which
\* has the id and is 'verified'.
C2_UpdateFrame ==
  [][\A i \in 1..Len(calls) :
       (UpdateWrite(i) /\ calls[i].status = "verified" /\ Len(calls') = Len(calls)) =>
         LET before == GetSubmissions(store)
             after == GetSubmissions(store')
         IN \E k \in 1..Len(after) :
              /\ after[k].id = calls[i].id
              /\ after[k].status = "verified"
              /\ IF Len(after) = Len(before)
                 THEN RemoveAt(after, k) = RemoveAt(before, k)
                 ELSE RemoveAt(after, k) = before]_vars

\* C2's case: a 'verified' update has written one of two stored submissions,
\* the other still pending
C2_Witness ==
  \E i \in 1..Len(calls) :
    /\ calls[i].op = "update" /\ calls[i].pc = "notify" /\ calls[i].status = "verified"
    /\ Len(store) = 2
    /\ \E k, j \in 1..2 :
         /\ k # j
         /\ store[k].id = calls[i].id /\ store[k].status = "verified"
         /\ store[j].id # calls[i].id /\ store[j].status = "pending"

\* C6: when a scan matches a submission that is in the store, within the 24
\* hours and with all five fields equal, handleQRScan's updateSubmissionStatus
\* makes that submission's stored status 'verified': once the call has
\* written, every stored submission the scan matched is 'verified'.
C6_ScanVerifiesMatched ==
  \A i \in 1..Len(calls) :
    (/\ calls[i].op = "update" /\ calls[i].src = "scan"
     /\ calls[i].pc \in {"notify", "deliver"}
     /\ calls[i].matched # Null)
    => \A k \in 1..Len(store) :
         (Decrypts(store[k]) /\ SameSubmission(Entry(store[k]), calls[i].matched))
         => store[k].status = "verified"

\* C7: a scan whose verdict is 'no matching submission', 'expired',
\* 'discrepancy' or a parse failure writes nothing to the store and starts no
\* call that would.
C7_FailedScanWritesNothing ==
  [][((\E parsed \in ScanInputs(now) : HandleQRScan(parsed))
      /\ qrValidationResult' \in {"nomatch", "expired", "discrepancy"} \cup ErrorMessages)
     => (store' = store /\ calls' = calls)]_vars

\* C7's case: a scan found the pending submission it matched to differ
C7_Witness ==
  /\ qrValidationResult = "discrepancy"
  /\ calls = <<>>
  /\ \E k \in 1..Len(store) : store[k].status = "pending"
  /\ \E k \in 1..Len(submissions) : submissions[k].status = "pending"

----------------------------------------------------------------------------
(* validateQRData as a function: every list of submissions of up to MaxList *)
(* entries, every payload of PayloadInputs and the parse failure.           *)

\* the stored submission addSubmission makes of a record at clock value id
StoredOf(rec, id) ==
  ServiceSubmission([id |-> id, encryptedData |-> EncryptSubmissionData(rec),
                     submittedAt |-> id, status |-> "pending"], id)

\* the records of the submissions: against the payload of u, "Ab", "1", 7, 3
\* they agree on 5 fields, on 4 (5 when the payload has no dob), on name,
\* aadhaar and mobile, on name, dob and username, on name and dob, on none
ListRecords ==
  {Rec(<<"u">>, <<"A", "b">>, Str(<<"1">>), <<"x">>, <<"7">>, <<"3">>),
   RecA,
   Rec(<<"j">>, <<"a", "B", " ">>, Str(<<"2">>), <<"x">>, <<"7">>, <<"3">>),
   Rec(<<"u">>, <<"A", "b">>, Str(<<"1">>), <<"x">>, <<"9">>, <<"9">>),
   Rec(<<"j">>, <<"A", "b">>, Str(<<"1">>), <<"x">>, <<"9">>, <<"9">>),
   Rec(<<"w">>, <<"D">>, Str(<<"2">>), <<"z">>, <<"8">>, <<"5">>)}

\* the lists getSubmissions can deliver: entry k was submitted at clock value k
SubmissionLists ==
  UNION {{[k \in 1..m |-> Entry(StoredOf(f[k], k))] : f \in [1..m -> ListRecords]} :
           m \in 0..MaxList}

\* the clock value of the scan: 24 hours and MaxClock ms
ScanClock == QRValidHours * MsPerHour + MaxClock

\* verifiedAt as a Date: Invalid Date, and 24 h + MaxClock, 24 h + 1 ms, 24 h
\* and 0 ms before the scan
VerifiedAts ==
  {[valid |-> FALSE, time |-> 0]}
  \cup {[valid |-> TRUE, time |-> t] : t \in {0, MaxClock - 1, MaxClock, ScanClock}}

AgeOnly == [NoRequest EXCEPT !["age"] = True]
MixedRequest ==
  [NoRequest EXCEPT !["age"] = Str(<<"y">>), !["name"] = False,
                    !["mobile"] = True, !["username"] = True]
Requests == {NoRequest, AgeOnly, AllRequested, MixedRequest}

PayloadInputs ==
  {[ok |-> FALSE, data |-> Null]}
  \cup {[ok |-> TRUE,
         data |-> PayloadOf([username |-> Str(<<"u">>), name |-> name, dob |-> dob,
                             address |-> Str(<<"x">>), mobile |-> Str(<<"7">>),
                             aadhaar |-> Str(<<"3">>)],
                            at.valid, at.time, req)] :
          name \in {Str(<<"A", "b">>), Str(<<" ", "a", "B">>), Undefined},
          dob \in {Str(<<"1">>), Undefined},
          at \in VerifiedAts,
          req \in Requests}

InitValidate ==
  /\ useLocalStorage = TRUE
  /\ subscribers = <<SetSubmissions>>
  /\ documents = <<>>
  /\ settings = <<>>
  /\ store = <<>>
  /\ now = ScanClock
  /\ calls = <<>>
  /\ submissions \in SubmissionLists
  /\ selected = NoId
  /\ qrValidationResult = ""
  /\ input \in PayloadInputs
  /\ output = Null

\* validateQRData(qrData) on the dashboard's list
Validate ==
  /\ output = Null
  /\ output' = ValidateQRData(input, submissions, now)
  /\ UNCHANGED <<useLocalStorage, subscribers, documents, settings, store, now, calls, submissions, selected,
                 qrValidationResult, input>>

NextValidate == Validate

SpecValidate == InitValidate /\ [][NextValidate]_vars

\* validateQRData returned a verdict for a payload that parsed
Validated == output # Null /\ input.ok

\* the checks of the five that are true of a submission and the payload
ChecksTrue(submission, parsedData) ==
  {c \in {"name", "dob", "aadhaar", "mobile", "username"} :
     CASE c = "name" -> NameMatch(submission, parsedData)
       [] c = "dob" -> DobMatch(submission, parsedData)
       [] OTHER -> submission[c] = parsedData[c]}

\* C3: the match is the first submission in list order with at least 3 of the
\* 5 checks true; when no submission reaches 3 of 5 the verdict is 'No
\* matching submission' with submission = null and isValid = false.
C3_FirstThreeOfFive ==
  Validated =>
    LET hits == {k \in 1..Len(submissions) :
                   Cardinality(ChecksTrue(submissions[k], input.data)) >= 3}
    IN IF hits = {}
       THEN /\ output.message = "nomatch"
            /\ output.submission = Null
            /\ ~output.isValid
       ELSE \E k \in hits :
              /\ \A j \in hits : k <= j
              /\ output.submission = submissions[k]

\* C3's case: the first submission agrees on 2 checks, the second on exactly
\* 3, and the second is the match
C3_Witness ==
  /\ Validated
  /\ Len(submissions) = 2
  /\ Cardinality(ChecksTrue(submissions[1], input.data)) = 2
  /\ Cardinality(ChecksTrue(submissions[2], input.data)) = 3
  /\ output.submission = submissions[2]

\* C4: a matched payload verified more than 24 hours (86,400,000 ms) before
\* the scan gets the 'expired' verdict, isValid = false and
\* attributeVerification = null, whatever fields agree; one verified 24 hours
\* before or less does not get 'expired'.
C4_ExpiredAfter24h ==
  (Validated /\ output.submission # Null /\ input.data.verifiedAt.valid) =>
    IF now - input.data.verifiedAt.time > 86400000
    THEN /\ output.message = "expired"
         /\ ~output.isValid
         /\ output.attributeVerification = Null
    ELSE output.message # "expired"

\* C4's case: all five fields agree and the payload is 24 hours and 1 ms old
C4_Witness ==
  /\ Validated
  /\ output.submission # Null
  /\ Cardinality(ChecksTrue(output.submission, input.data)) = 5
  /\ input.data.verifiedAt.valid
  /\ now - input.data.verifiedAt.time = 86400001
  /\ output.message = "expired"

\* C5: a matched payload whose verifiedAt is absent or no date gets no
\* isValid = true verdict and triggers no automatic update to 'verified'.
C5_InvalidDateNotValid ==
  (Validated /\ output.submission # Null /\ ~input.data.verifiedAt.valid) =>
    (~output.isValid /\ ~AutoVerifies(output))

\* C8 as stated: for a matched, non-expired payload the returned attribute
\* verdict has exactly the attributes a with verificationRequested[a] === true.
C8_ReturnedExactlyRequested ==
  (Validated /\ output.attributeVerification # Null) =>
    DOMAIN output.attributeVerification =
      {a \in ReqKeys : input.data.verificationRequested[a] = True}

\* C8 amended: for a matched, non-expired payload the returned attribute
\* verdict has all five entries, and the displayed one (the entries whose
\* requested flag is truthy) has exactly the attributes a of the five with a
\* truthy verificationRequested[a]: for {age: true} exactly 'age'; 'age'
\* reports the dob-equality check.
C8_DisplayedExactlyRequested ==
  (Validated /\ output.attributeVerification # Null) =>
    /\ DOMAIN output.attributeVerification = Attrs
    /\ Displayed(output) =
         {a \in Attrs : Truthy(input.data.verificationRequested[a])}
    /\ (input.data.verificationRequested = AgeOnly => Displayed(output) = {"age"})
    /\ output.attributeVerification["age"].verified
         = ("dob" \in ChecksTrue(output.submission, input.data))

\* C8's case: {age: true} only, a submission matched on 3 of the 5 fields
C8_Witness ==
  /\ Validated
  /\ output.attributeVerification # Null
  /\ input.data.verificationRequested = AgeOnly
  /\ Cardinality(ChecksTrue(output.submission, input.data)) = 3
  /\ Displayed(output) = {"age"}

----------------------------------------------------------------------------
(* qrParser.js parseQRData, with the library functions it calls, on ASCII   *)
(* text.  A function that can throw returns ok = FALSE for the exception.   *)

HexDigits == <<"0", "1", "2", "3", "4", "5", "6", "7", "8", "9", "A", "B", "C", "D", "E", "F">>

IsHex(c) == c \in SeqToSet(HexDigits) \cup {"a", "b", "c", "d", "e", "f"}

HexVal(c) ==
  CASE c = "a" -> 10 [] c = "b" -> 11 [] c = "c" -> 12
    [] c = "d" -> 13 [] c = "e" -> 14 [] c = "f" -> 15
    [] OTHER -> (CHOOSE n \in 1..16 : HexDigits[n] = c) - 1

IsAlpha(c) == c \in AsciiSet /\ (CodeOf[c] \in 65..90 \/ CodeOf[c] \in 97..122)
IsDigit(c) == c \in AsciiSet /\ CodeOf[c] \in 48..57

\* the characters encodeURIComponent leaves as they are
Unreserved(c) == IsAlpha(c) \/ IsDigit(c) \/ c \in {"-", "_", ".", "!", "~", "*", "'", "(", ")"}

\* encodeURIComponent of ASCII text
RECURSIVE EncodeURIComponent(_)
EncodeURIComponent(text) ==
  IF text = <<>> THEN <<>>
  ELSE LET c == Head(text) IN
       (IF Unreserved(c) THEN <<c>>
        ELSE <<"%", HexDigits[(CodeOf[c] \div 16) + 1], HexDigits[(CodeOf[c] % 16) + 1]>>)
       \o EncodeURIComponent(Tail(text))

\* decodeURIComponent: a URIError for a % without two hex digits after it and
\* for a byte above 127 that starts no UTF-8 sequence of percent triples (in a
\* text with fewer than two triples in a row, every such byte)
RECURSIVE DecodeURIComponent(_, _, _)
DecodeURIComponent(text, i, acc) ==
  IF i > Len(text) THEN [ok |-> TRUE, text |-> acc]
  ELSE IF text[i] # "%" THEN DecodeURIComponent(text, i + 1, Append(acc, text[i]))
  ELSE IF i + 2 > Len(text) \/ ~IsHex(text[i + 1]) \/ ~IsHex(text[i + 2])
       THEN [ok |-> FALSE, text |-> <<>>]
  ELSE LET byte == 16 * HexVal(text[i + 1]) + HexVal(text[i + 2]) IN
       IF byte > 127 THEN [ok |-> FALSE, text |-> <<>>]
       ELSE DecodeURIComponent(text, i + 3, Append(acc, CharOf(byte)))

\* text.replace(/\+/g, '%20')
RECURSIVE ReplacePlus(_)
ReplacePlus(text) ==
  IF text = <<>> THEN <<>>
  ELSE (IF Head(text) = "+" THEN <<"%", "2", "0">> ELSE <<Head(text)>>)
       \o ReplacePlus(Tail(text))

\* the application/x-www-form-urlencoded decoding of URLSearchParams: + is a
\* space, a percent triple is its byte, any other % stays
RECURSIVE FormDecode(_, _, _)
FormDecode(text, i, acc) ==
  IF i > Len(text) THEN acc
  ELSE IF text[i] = "+" THEN FormDecode(text, i + 1, Append(acc, " "))
  ELSE IF text[i] = "%" /\ i + 2 <= Len(text) /\ IsHex(text[i + 1]) /\ IsHex(text[i + 2])
       THEN LET byte == 16 * HexVal(text[i + 1]) + HexVal(text[i + 2]) IN
            FormDecode(text, i + 3,
                       Append(acc, IF byte > 127 THEN ReplacementChar ELSE CharOf(byte)))
  ELSE FormDecode(text, i + 1, Append(acc, text[i]))

\* the index of the first character of text from i on that is in set, or 0
RECURSIVE IndexOf(_, _, _)
IndexOf(text, set, i) ==
  IF i > Len(text) THEN 0
  ELSE IF text[i] \in set THEN i
  ELSE IndexOf(text, set, i + 1)

\* new URL(input): ok = FALSE is the TypeError of an qrText with no scheme, or
\* with a special scheme and no host; query is the text between ? and #,
\* which the URL parser leaves as it is when it holds unreserved characters
\* and percent triples only
SpecialSchemes ==
  {<<"h", "t", "t", "p">>, <<"h", "t", "t", "p", "s">>, <<"f", "t", "p">>,
   <<"w", "s">>, <<"w", "s", "s">>}
NewURL(qrText) ==
  LET colon == IndexOf(qrText, {":"}, 1)
      scheme == ToLowerCase(SubSeq(qrText, 1, colon - 1))
      rest == SubSeq(qrText, colon + 1, Len(qrText))
      host == IndexOf(rest, AsciiSet \ {"/", "\\"}, 1)
      mark == IndexOf(qrText, {"?", "#"}, 1)
      hash == IndexOf(qrText, {"#"}, 1)
  IN IF \/ colon < 2
        \/ ~IsAlpha(qrText[1])
        \/ \E k \in 2..(colon - 1) :
             ~(IsAlpha(qrText[k]) \/ IsDigit(qrText[k]) \/ qrText[k] \in {"+", "-", "."})
        \/ (scheme \in SpecialSchemes /\ (host = 0 \/ rest[host] \in {"?", "#"}))
     THEN [ok |-> FALSE, query |-> <<>>]
     ELSE [ok |-> TRUE,
           query |-> IF mark = 0 \/ qrText[mark] = "#" THEN <<>>
                     ELSE SubSeq(qrText, mark + 1, IF hash = 0 THEN Len(qrText) ELSE hash - 1)]

\* url.searchParams.get(name): the decoded value of the first pair of the
\* query with that name, or null
RECURSIVE SearchParamsGet(_, _)
SearchParamsGet(query, name) ==
  IF query = <<>> THEN Null
  ELSE LET amp == IndexOf(query, {"&"}, 1)
           pair == IF amp = 0 THEN query ELSE SubSeq(query, 1, amp - 1)
           rest == IF amp = 0 THEN <<>> ELSE SubSeq(query, amp + 1, Len(query))
           eq == IndexOf(pair, {"="}, 1)
           key == IF eq = 0 THEN pair ELSE SubSeq(pair, 1, eq - 1)
           val == IF eq = 0 THEN <<>> ELSE SubSeq(pair, eq + 1, Len(pair))
       IN IF pair # <<>> /\ FormDecode(key, 1, <<>>) = name
          THEN Str(FormDecode(val, 1, <<>>))
          ELSE SearchParamsGet(rest, name)

Base64Alphabet ==
  <<"A", "B", "C", "D", "E", "F", "G", "H", "I", "J", "K", "L", "M", "N", "O", "P",
    "Q", "R", "S", "T", "U", "V", "W", "X", "Y", "Z", "a", "b", "c", "d", "e", "f",
    "g", "h", "i", "j", "k", "l", "m", "n", "o", "p", "q", "r", "s", "t", "u", "v",
    "w", "x", "y", "z", "0", "1", "2", "3", "4", "5", "6", "7", "8", "9", "+", "/">>

Base64Val == [c \in SeqToSet(Base64Alphabet) |-> (CHOOSE n \in 1..64 : Base64Alphabet[n] = c) - 1]

\* btoa of ASCII text
RECURSIVE Btoa(_)
Btoa(text) ==
  IF text = <<>> THEN <<>>
  ELSE LET b1 == CodeOf[text[1]]
           b2 == IF Len(text) >= 2 THEN CodeOf[text[2]] ELSE 0
           b3 == IF Len(text) >= 3 THEN CodeOf[text[3]] ELSE 0
           n == 65536 * b1 + 256 * b2 + b3
       IN <<Base64Alphabet[(n \div 262144) + 1],
            Base64Alphabet[((n \div 4096) % 64) + 1],
            IF Len(text) >= 2 THEN Base64Alphabet[((n \div 64) % 64) + 1] ELSE "=",
            IF Len(text) >= 3 THEN Base64Alphabet[(n % 64) + 1] ELSE "=">>
          \o (IF Len(text) > 3 THEN Btoa(SubSeq(text, 4, Len(text))) ELSE <<>>)

\* the bytes of base64 characters without padding, as characters
RECURSIVE Base64Bytes(_)
Base64Bytes(data) ==
  IF Len(data) < 2 THEN <<>>
  ELSE LET v(k) == IF k <= Len(data) THEN Base64Val[data[k]] ELSE 0
           n == 262144 * v(1) + 4096 * v(2) + 64 * v(3) + v(4)
           ch(byte) == IF byte > 127 THEN HighChar ELSE CharOf(byte)
       IN <<ch(n \div 65536)>>
          \o (IF Len(data) >= 3 THEN <<ch((n \div 256) % 256)>> ELSE <<>>)
          \o (IF Len(data) >= 4 THEN <<ch(n % 256)>> ELSE <<>>)
          \o (IF Len(data) > 4 THEN Base64Bytes(SubSeq(data, 5, Len(data))) ELSE <<>>)

\* atob: ok = FALSE is the InvalidCharacterError
Atob(text) ==
  LET data == SelectSeq(text, LAMBDA c : c \notin {" ", "<09>", "<0a>", "<0c>", "<0d>"})
      pad == IF Len(data) % 4 = 0 /\ Len(data) >= 1 /\ data[Len(data)] = "="
             THEN IF Len(data) >= 2 /\ data[Len(data) - 1] = "=" THEN 2 ELSE 1
             ELSE 0
      body == SubSeq(data, 1, Len(data) - pad)
  IN IF Len(body) % 4 = 1 \/ \E k \in 1..Len(body) : body[k] \notin DOMAIN Base64Val
     THEN [ok |-> FALSE, text |-> <<>>]
     ELSE [ok |-> TRUE, text |-> Base64Bytes(body)]

\* a || b on two values
Or(a, b) == IF Truthy(a) THEN a ELSE b

\* the fallbacks of parseQRData on input qrText: plain JSON, URL-decoded JSON, base64
\* JSON, and the Error 'Unable to parse QR data as JSON' (ok = FALSE)
ParseFallbacks(qrText) ==
  LET plain == JSONParse(qrText)
      decoded == DecodeURIComponent(ReplacePlus(qrText), 1, <<>>)
      text == Atob(qrText)
  IN IF plain.ok THEN plain
     ELSE IF decoded.ok /\ JSONParse(decoded.text).ok THEN JSONParse(decoded.text)
     ELSE IF text.ok /\ JSONParse(text.text).ok THEN JSONParse(text.text)
     ELSE ParseFail

\* parseQRData(input) of a string input, here qrText
ParseQRData(qrText) ==
  LET url == NewURL(qrText)
      payload ==
        Or(SearchParamsGet(url.query, <<"d", "a", "t", "a">>),
           Or(SearchParamsGet(url.query, <<"p", "a", "y", "l", "o", "a", "d">>),
              Or(SearchParamsGet(url.query, <<"q">>), SearchParamsGet(url.query, <<"p">>))))
  IN IF url.ok /\ Truthy(payload)
     THEN LET decoded == DecodeURIComponent(ReplacePlus(payload.v), 1, <<>>) IN
          IF ~decoded.ok THEN ParseFallbacks(qrText)
          ELSE IF JSONParse(decoded.text).ok THEN JSONParse(decoded.text)
          ELSE ParseFallbacks(decoded.text)
     ELSE ParseFallbacks(qrText)

----------------------------------------------------------------------------
(* parseQRData as a function, on the four forms of a payload object whose   *)
(* mobile is any string of up to MaxStrLen characters of ValueChars.        *)

ValueChars == {"a", "+", "%", " ", "2", "0", "\""}

Strings(n) == UNION {[1..m -> ValueChars] : m \in 0..n}

Forms == {"json", "urlencoded", "base64", "url"}

\* `${window.location.origin}/qr-verification?data=`
VerificationUrl ==
  <<"h", "t", "t", "p", "s", ":", "/", "/", "h", "/", "q", "r", "?", "d", "a", "t", "a", "=">>

\* the text of a QR code that carries P in the form
QRText(P, form) ==
  CASE form = "json" -> JSONStringify(P)
    [] form = "urlencoded" -> EncodeURIComponent(JSONStringify(P))
    [] form = "base64" -> Btoa(JSONStringify(P))
    [] form = "url" -> VerificationUrl \o EncodeURIComponent(JSONStringify(P))

InitParse ==
  /\ useLocalStorage = TRUE
  /\ subscribers = <<SetSubmissions>>
  /\ documents = <<>>
  /\ settings = <<>>
  /\ store = <<>>
  /\ now = 1
  /\ calls = <<>>
  /\ submissions = <<>>
  /\ selected = NoId
  /\ qrValidationResult = ""
  /\ input \in {[P |-> [EmptyObj EXCEPT !["mobile"] = Str(s)], form |-> f] :
                  s \in Strings(MaxStrLen), f \in Forms}
  /\ output = Null

\* parseQRData on the text of the QR code
Parse ==
  /\ output = Null
  /\ output' = ParseQRData(QRText(input.P, input.form))
  /\ UNCHANGED <<useLocalStorage, subscribers, documents, settings, store, now, calls, submissions, selected,
                 qrValidationResult, input>>

NextParse == Parse

SpecParse == InitParse /\ [][NextParse]_vars

\* C9: parseQRData returns an object equal to P given JSON.stringify(P), its
\* encodeURIComponent, its base64 encoding, and the URL
\* https://host/path?data=<encodeURIComponent(JSON.stringify(P))>, for every
\* character the string values of P may contain.
C9_ParseRecoversP ==
  output # Null => (output.ok /\ output.obj = input.P)

----------------------------------------------------------------------------
(* The two codecs as functions, on the records whose name and mobile are    *)
(* any strings of up to MaxStrLen characters of RecordChars.                *)

RecordChars == {"a", "\"", "\\"}

RecordStrings(n) == UNION {[1..m -> RecordChars] : m \in 0..n}

InitCodec ==
  /\ useLocalStorage = TRUE
  /\ subscribers = <<SetSubmissions>>
  /\ documents = <<>>
  /\ settings = <<>>
  /\ store = <<>>
  /\ now = 1
  /\ calls = <<>>
  /\ submissions = <<>>
  /\ selected = NoId
  /\ qrValidationResult = ""
  /\ input \in {[EmptyObj EXCEPT !["name"] = Str(n), !["mobile"] = m] :
                  n \in RecordStrings(MaxStrLen),
                  m \in {Undefined} \cup {Str(x) : x \in RecordStrings(1)}}
  /\ output = Null

\* decryptSubmissionData(encryptSubmissionData(R)) of submissionStore.js
StoreRoundTrip ==
  /\ output = Null
  /\ LET encrypted == EncryptSubmissionData(input) IN
     output' = [codec |-> "submissionStore"]
               @@ (IF encrypted.t = "null" THEN ParseFail
                   ELSE DecryptSubmissionData(encrypted))
  /\ UNCHANGED <<useLocalStorage, subscribers, documents, settings, store, now, calls, submissions, selected,
                 qrValidationResult, input>>

\* decryptData(encryptData(R)) of encryption.js
WalletRoundTrip ==
  /\ output = Null
  /\ LET encrypted == EncryptData(input) IN
     output' = [codec |-> "encryption"]
               @@ (IF ~encrypted.ok THEN ParseFail ELSE DecryptData(encrypted.blob))
  /\ UNCHANGED <<useLocalStorage, subscribers, documents, settings, store, now, calls, submissions, selected,
                 qrValidationResult, input>>

NextCodec == StoreRoundTrip \/ WalletRoundTrip

SpecCodec == InitCodec /\ [][NextCodec]_vars

\* C10: decrypt(encrypt(R)) equals R for every valid record R, for the codec
\* of submissionStore.js and the codec of encryption.js, each with its own
\* static key.
C10_RoundTrip ==
  output # Null => (output.ok /\ output.obj = input)

\* C10's case: the encryption.js codec returned a record whose name holds a
\* quote and a backslash
C10_Witness ==
  /\ output # Null
  /\ output.codec = "encryption"
  /\ {"\"", "\\"} \subseteq SeqToSet(input["name"].v)
  /\ output.obj = input

----------------------------------------------------------------------------
(* The decrypting functions on ciphertext strings that were made under     *)
(* either key, or cut or changed after they were made.                     *)

\* the passphrase of a ciphertext string that was cut or changed
Damaged == ""

\* the texts that the bytes of a failed decryption can read as
GarbageChars == {"a", "0", "1"}
GarbageTexts == {<<>>} \cup {<<c>> : c \in GarbageChars}
Garbage == {Malformed} \cup {[ok |-> TRUE, text |-> g] : g \in GarbageTexts}

Blobs ==
  {[t |-> "string", key |-> k, pt |-> JSONStringify([EmptyObj EXCEPT !["name"] = Str(n)]),
    garbage |-> g] :
     k \in {StoreKey, WalletKey, Damaged}, n \in RecordStrings(1), g \in Garbage}

InitTamper ==
  /\ useLocalStorage = TRUE
  /\ subscribers = <<SetSubmissions>>
  /\ documents = <<>>
  /\ settings = <<>>
  /\ store = <<>>
  /\ now = 1
  /\ calls = <<>>
  /\ submissions = <<>>
  /\ selected = NoId
  /\ qrValidationResult = ""
  /\ input \in Blobs
  /\ output = Null

\* submissionStore.js decryptSubmissionData(blob): returned is FALSE when it
\* returns null
StoreDecrypt ==
  /\ output = Null
  /\ LET d == DecryptSubmissionData(input) IN
     output' = [codec |-> "submissionStore", key |-> StoreKey, thrown |-> FALSE,
                returned |-> d.ok /\ d.obj # Null, value |-> d.obj]
  /\ UNCHANGED <<useLocalStorage, subscribers, documents, settings, store, now, calls, submissions, selected,
                 qrValidationResult, input>>

\* encryption.js decryptData(blob): it returns, or throws its Error
WalletDecrypt ==
  /\ output = Null
  /\ LET d == DecryptData(input) IN
     output' = [codec |-> "encryption", key |-> WalletKey, thrown |-> ~d.ok,
                returned |-> d.ok, value |-> d.obj]
  /\ UNCHANGED <<useLocalStorage, subscribers, documents, settings, store, now, calls, submissions, selected,
                 qrValidationResult, input>>

\* encryption.js decryptSubmissionData({ name: { encrypted: true, data: blob } })
FieldDecrypt ==
  /\ output = Null
  /\ LET encryptedSubmission == [k \in KeySet |->
                                   IF k = "name" THEN EncryptedField(input) ELSE Undefined]
     IN output' = [codec |-> "fields", key |-> WalletKey, thrown |-> FALSE,
                   returned |-> TRUE, value |-> DecryptSubmissionFields(encryptedSubmission)]
  /\ UNCHANGED <<useLocalStorage, subscribers, documents, settings, store, now, calls, submissions, selected,
                 qrValidationResult, input>>

NextTamper == StoreDecrypt \/ WalletDecrypt \/ FieldDecrypt

SpecTamper == InitTamper /\ [][NextTamper]_vars

\* C11: decrypting a ciphertext made under a different key, or cut or
\* changed, always gives the failure signal (null from submissionStore.js,
\* the thrown Error from encryption.js) and never returns a parsed value.
C11_TamperedNeverReturns ==
  (output # Null /\ input.key # output.key) => ~output.returned

----------------------------------------------------------------------------
(* getSubmissions on stored lists whose submissions hold a ciphertext of   *)
(* the store's key, no ciphertext, or a ciphertext of the other key.       *)

StoredBlobs ==
  {EncryptSubmissionData(RecA), NullBlob}
  \cup {[t |-> "string", key |-> WalletKey, pt |-> JSONStringify(RecA), garbage |-> g] :
          g \in Garbage}

\* the stored lists: the submission at position i has id i
StoredLists ==
  UNION {{[i \in 1..n |->
             ServiceSubmission([id |-> i, encryptedData |-> f[i][1], submittedAt |-> i,
                                status |-> f[i][2]], i)] :
            f \in [1..n -> StoredBlobs \X {"pending", "verified"}]} : n \in 0..MaxList}

InitListing ==
  /\ useLocalStorage = TRUE
  /\ subscribers = <<SetSubmissions>>
  /\ documents = <<>>
  /\ settings = <<>>
  /\ store = <<>>
  /\ now = 1
  /\ calls = <<>>
  /\ submissions = <<>>
  /\ selected = NoId
  /\ qrValidationResult = ""
  /\ input \in StoredLists
  /\ output = Null

\* getSubmissions() over the stored list
Listing ==
  /\ output = Null
  /\ output' = [list |-> GetSubmissions(input)]
  /\ UNCHANGED <<useLocalStorage, subscribers, documents, settings, store, now, calls, submissions, selected,
                 qrValidationResult, input>>

NextListing == Listing

SpecListing == InitListing /\ [][NextListing]_vars

\* the stored submission holds a ciphertext that was made under the store's key
Authentic(submission) ==
  submission.encryptedData.t = "string" /\ submission.encryptedData.key = StoreKey

\* C12: getSubmissions returns, in store order, exactly one entry for each
\* stored submission whose encryptedData decrypts; a submission whose
\* decryption fails, or that has no encryptedData, is left out and causes
\* no other to be left out.
C12_ListsExactlyDecryptable ==
  output # Null =>
    LET kept == SelectSeq(input, Authentic) IN
    /\ Len(output.list) = Len(kept)
    /\ \A i \in 1..Len(kept) :
         /\ output.list[i].id = kept[i].id
         /\ output.list[i].status = kept[i].status
         /\ \A k \in KeySet : output.list[i][k] = RecA[k]

----------------------------------------------------------------------------
(* The submissionStore calls running side by side: each call is a chain of *)
(* steps between its awaits, and the steps of the calls in flight          *)
(* interleave.  Every started call takes a millisecond of its own.         *)

\* the calls in flight at once, and the calls started in all
MaxInFlight == 2
MaxStarted == 3

InitRace ==
  /\ useLocalStorage \in BOOLEAN
  /\ subscribers = <<SetSubmissions>>
  /\ documents = <<>>
  /\ settings = <<>>
  /\ store = <<>>
  /\ now = 1
  /\ calls = <<>>
  /\ submissions = <<>>
  /\ selected = NoId
  /\ qrValidationResult = ""
  /\ input = Null
  /\ output = Null

\* a call can start
CanStart == Len(calls) < MaxInFlight /\ now <= MaxStarted

\* submissionStore.addSubmission(RecA) up to its await of firebaseService.addSubmission
StartAdd ==
  /\ CanStart
  /\ now' = now + 1
  /\ calls' = Append(calls, Call("add", "insert", now, "pending",
                          [id |-> now, encryptedData |-> EncryptSubmissionData(RecA),
                           submittedAt |-> now, status |-> "pending"], "upload", Null))
  /\ UNCHANGED <<useLocalStorage, subscribers, documents, settings, store, submissions, selected, qrValidationResult, pure>>

\* submissionStore.updateSubmissionStatus(submissionId, status) up to its await
StartUpdate(submissionId, status) ==
  /\ CanStart
  /\ now' = now + 1
  /\ calls' = Append(calls, Call("update", "read", submissionId, status, NoDoc, "api", Null))
  /\ UNCHANGED <<useLocalStorage, subscribers, documents, settings, store, submissions, selected, qrValidationResult, pure>>

\* submissionStore.deleteSubmission(submissionId) up to its await
StartDelete(submissionId) ==
  /\ CanStart
  /\ now' = now + 1
  /\ calls' = Append(calls, Call("delete", "delete", submissionId, "", NoDoc, "api", Null))
  /\ UNCHANGED <<useLocalStorage, subscribers, documents, settings, store, submissions, selected, qrValidationResult, pure>>

\* submissionStore.clearAllSubmissions() up to its await
StartClear ==
  /\ CanStart
  /\ now' = now + 1
  /\ calls' = Append(calls, Call("clear", "read", 0, "", NoDoc, "api", Null))
  /\ UNCHANGED <<useLocalStorage, subscribers, documents, settings, store, submissions, selected, qrValidationResult, pure>>

\* firebaseService.deleteSubmission: deleteOne({_id: String(submissionId)})
DeleteWrite(i) ==
  /\ calls[i].op = "delete" /\ calls[i].pc = "delete"
  /\ store' = DeleteOne(useLocalStorage, store, [_id |-> StringOf(calls[i].id)]).items
  /\ calls' = [calls EXCEPT ![i].pc = "notify"]
  /\ UNCHANGED <<useLocalStorage, subscribers, documents, settings, now, submissions, selected, qrValidationResult, pure>>

\* firebaseService.clearAllSubmissions: getAllSubmissions
ClearRead(i) ==
  /\ calls[i].op = "clear" /\ calls[i].pc = "read"
  /\ calls' = [calls EXCEPT ![i].pc = "delete", ![i].snap = store]
  /\ UNCHANGED <<useLocalStorage, subscribers, documents, settings, store, now, submissions, selected, qrValidationResult, pure>>

\* firebaseService.clearAllSubmissions: the next deleteSubmission(submission.id)
\* of its loop, or the end of the loop
ClearDelete(i) ==
  /\ calls[i].op = "clear" /\ calls[i].pc = "delete"
  /\ IF calls[i].snap = <<>>
     THEN /\ calls' = [calls EXCEPT ![i].pc = "notify"]
          /\ UNCHANGED store
     ELSE /\ store' = DeleteOne(useLocalStorage, store,
                                [_id |-> StringOf(Head(calls[i].snap).id)]).items
          /\ calls' = [calls EXCEPT ![i].snap = Tail(calls[i].snap)]
  /\ UNCHANGED <<useLocalStorage, subscribers, documents, settings, now, submissions, selected, qrValidationResult, pure>>

NextRace ==
  \/ StartAdd
  \/ \E submissionId \in 1..MaxStarted, status \in {"verified", "rejected"} :
       StartUpdate(submissionId, status)
  \/ \E submissionId \in 1..MaxStarted : StartDelete(submissionId)
  \/ StartClear
  \/ \E i \in 1..Len(calls) : AddInsert(i)
  \/ \E i \in 1..Len(calls) : UpdateRead(i)
  \/ \E i \in 1..Len(calls) : UpdateWrite(i)
  \/ \E i \in 1..Len(calls) : DeleteWrite(i)
  \/ \E i \in 1..Len(calls) : ClearRead(i)
  \/ \E i \in 1..Len(calls) : ClearDelete(i)
  \/ \E i \in 1..Len(calls) : NotifyRead(i)
  \/ \E i \in 1..Len(calls) : Deliver(i)

SpecRace == InitRace /\ [][NextRace]_vars

\* C13: under any interleaving of addSubmission, updateSubmissionStatus,
\* deleteSubmission and clearAllSubmissions, every list handed to a
\* subscriber is the decrypted content of the store at that moment.
C13_DeliveredIsCurrent ==
  [][\A i \in 1..Len(calls) :
       (calls[i].pc = "deliver" /\ Len(calls') < Len(calls) /\ submissions' = calls[i].snap)
       => submissions' = GetSubmissions(store)]_vars

\* C27: under any interleaving of deleteSubmission and
\* updateSubmissionStatus calls, updateSubmissionStatus never creates a
\* record: a step that adds a record to the store is the insert of an
\* addSubmission, so that a deleted id comes back by a later addSubmission
\* only.
C27_OnlyAddCreates ==
  [][Len(store') > Len(store)
       => \E i \in 1..Len(calls) :
            /\ calls[i].op = "add" /\ calls[i].pc = "insert"
            /\ calls' = [calls EXCEPT ![i].pc = "notify"]]_vars

----------------------------------------------------------------------------
(* FirebaseService's document operations on the two collections, in either *)
(* mode.  Every writing operation takes a millisecond of its own, so that  *)
(* the ids the service generates differ.                                   *)

\* the documents of a collection, and the writing operations in all
MaxDocs == 2
MaxDocOps == 3

Collections == {"submissions", "settings"}
Items(collectionName) == IF collectionName = "submissions" THEN store ELSE settings

DocIds == {<<"7">>}
DocKeys == {"a", "b"}
DocValues == {"x", "y"}

\* the records given to insertOne, with an _id of the caller or without
DocRecords ==
  {[key |-> k, value |-> v] : k \in DocKeys, v \in DocValues}
  \cup {[_id |-> i, key |-> "a", value |-> v] : i \in DocIds, v \in DocValues}

\* the filters: none, one key, two keys, a document id
DocQueries ==
  {<<>>}
  \cup {[key |-> k] : k \in DocKeys}
  \cup {[key |-> k, value |-> v] : k \in DocKeys, v \in DocValues}
  \cup {[_id |-> i] : i \in DocIds}

DocPatches == {[value |-> "y"]}

NoOp == [op |-> "none"]

InitDocs ==
  /\ useLocalStorage \in BOOLEAN
  /\ subscribers = <<SetSubmissions>>
  /\ documents = <<>>
  /\ settings = <<>>
  /\ store = <<>>
  /\ now = 1
  /\ calls = <<>>
  /\ submissions = <<>>
  /\ selected = NoId
  /\ qrValidationResult = ""
  /\ input = Null
  /\ output = [inserted |-> <<>>, insertsOnly |-> TRUE, last |-> NoOp]

\* the collection collectionName becomes items
Stored(collectionName, items) ==
  /\ store' = IF collectionName = "submissions" THEN items ELSE store
  /\ settings' = IF collectionName = "submissions" THEN settings ELSE items

\* _executeOperation(collectionName, 'insertOne', {}, data)
DocInsertOne(collectionName, data) ==
  /\ now <= MaxDocOps
  /\ Len(Items(collectionName)) < MaxDocs
  /\ \E rand \in RandSuffixes :
       LET r == InsertOne(useLocalStorage, Items(collectionName), data, now, rand) IN
       /\ Stored(collectionName, r.items)
       /\ output' = [output EXCEPT
             !.inserted = Append(@, [collectionName |-> collectionName, data |-> data,
                                     insertedId |-> r.insertedId]),
             !.last = [op |-> "insertOne"]]
  /\ now' = now + 1
  /\ UNCHANGED <<useLocalStorage, subscribers, documents, calls, submissions, selected, qrValidationResult, input>>

\* _executeOperation(collectionName, 'updateOne', queryData, patch); returned
\* is FALSE when the operation throws
DocUpdateOne(collectionName, queryData, patch) ==
  /\ now <= MaxDocOps
  /\ queryData # <<>>
  /\ Len(Items(collectionName)) <= MaxDocs
  /\ \E rand \in RandSuffixes :
       LET before == Items(collectionName)
           r == UpdateOne(useLocalStorage, before, queryData, patch, now, rand) IN
       /\ Stored(collectionName, r.items)
       /\ output' = [output EXCEPT
             !.insertsOnly = FALSE,
             !.last = [op |-> "updateOne", queryData |-> queryData, patch |-> patch,
                       before |-> before, after |-> r.items, returned |-> r.ok,
                       matchedCount |-> r.matchedCount, upsertedCount |-> r.upsertedCount]]
  /\ now' = now + 1
  /\ UNCHANGED <<useLocalStorage, subscribers, documents, calls, submissions, selected, qrValidationResult, input>>

\* _executeOperation(collectionName, 'find', queryData).  Firestore's where
\* asks for data fields, which the document id is not: the model leaves the
\* find by _id to the local mode.
DocFind(collectionName, queryData) ==
  /\ (~useLocalStorage => "_id" \notin DOMAIN queryData)
  /\ output' = [output EXCEPT
        !.last = [op |-> "find", queryData |-> queryData, before |-> Items(collectionName),
                  result |-> Find(useLocalStorage, Items(collectionName), queryData)]]
  /\ UNCHANGED <<useLocalStorage, subscribers, documents, settings, store, now, calls, submissions, selected,
                 qrValidationResult, input>>

NextDocs ==
  \/ \E collectionName \in Collections, data \in DocRecords :
       DocInsertOne(collectionName, data)
  \/ \E collectionName \in Collections, queryData \in DocQueries, patch \in DocPatches :
       DocUpdateOne(collectionName, queryData, patch)
  \/ \E collectionName \in Collections, queryData \in DocQueries :
       DocFind(collectionName, queryData)

SpecDocs == InitDocs /\ [][NextDocs]_vars

\* C14: in local-fallback mode, findOne by the insertedId of an insertOne
\* returns the inserted record plus that _id, also after any number of later
\* insertOne calls into the same or other collections.
C14_InsertedIsFound ==
  (useLocalStorage /\ output.insertsOnly) =>
    \A n \in 1..Len(output.inserted) :
      LET e == output.inserted[n]
          r == LocalFindOne(Items(e.collectionName), [_id |-> e.insertedId])
      IN r.found /\ r.doc = [_id |-> e.insertedId] @@ e.data

\* C15: updateOne merges only the patch fields into the matched record,
\* leaves its other fields and every other record unchanged and reports
\* matchedCount 1 and upsertedCount 0; when no record matches the filter it
\* appends exactly one record of the filter fields overlaid with the patch
\* fields and reports matchedCount 0 and upsertedCount 1.
C15_UpdateMergesOrUpserts ==
  output.last.op = "updateOne" =>
    LET u == output.last
        hits == {k \in 1..Len(u.before) : Matches(u.before[k], u.queryData)}
        fields == DOMAIN u.queryData \cup DOMAIN u.patch
    IN /\ u.returned
       /\ IF hits # {}
          THEN /\ u.matchedCount = 1 /\ u.upsertedCount = 0
               /\ \E k \in hits : u.after = [u.before EXCEPT ![k] = u.patch @@ @]
          ELSE /\ u.matchedCount = 0 /\ u.upsertedCount = 1
               /\ Len(u.after) = Len(u.before) + 1
               /\ SubSeq(u.after, 1, Len(u.before)) = u.before
               /\ LET upserted == u.after[Len(u.after)] IN
                  /\ DOMAIN upserted \subseteq fields \cup {"_id"}
                  /\ \A f \in fields : upserted[f] = (u.patch @@ u.queryData)[f]

\* C16: find returns exactly the records that equal the filter on every key
\* of the filter (all records for the empty filter), for any number of
\* keys: in insertion order in local mode, the same set in Firestore mode.
C16_FindIsExactMatch ==
  output.last.op = "find" =>
    LET f == output.last
        exact == SelectSeq(f.before, LAMBDA item : Matches(item, f.queryData))
    IN IF useLocalStorage THEN f.result = exact
       ELSE SeqToSet(f.result) = SeqToSet(exact)

----------------------------------------------------------------------------
(* validateQRData on scanned texts of every kind, against lists whose      *)
(* submissions may lack a name or hold one that is no string.              *)

\* the scanned texts: no JSON, the empty text, null, a number, a string, the
\* empty object, RecA's object
ScannedTexts ==
  {<<"x">>, <<>>, <<"n", "u", "l", "l">>, <<"7">>, <<"\"", "A", "b", "\"">>,
   <<"{", "}">>, <<"a", ":", "b">>, JSONStringify(RecA)}

\* the value parseQRData returned as validateQRData reads it: null, or its
\* properties, which are all undefined on a number or a string
AsParsedData(value) ==
  IF value = Null THEN Null
  ELSE PayloadOf(IF IsPrimitive(value) THEN EmptyObj ELSE value, FALSE, 0, NoRequest)

\* parseQRData(qrText) as validateQRData receives it
Scanned(qrText) ==
  LET parsed == ParseQRData(qrText) IN
  [ok |-> parsed.ok, data |-> IF parsed.ok THEN AsParsedData(parsed.obj) ELSE Null]

\* entries with a name, without one, with a number for a name, and without
\* aadhaar, mobile and username
OddRecords ==
  {RecA,
   [RecA EXCEPT !["name"] = Undefined],
   [RecA EXCEPT !["name"] = [t |-> "number", v |-> <<"5">>]],
   [RecA EXCEPT !["aadhaar"] = Undefined, !["mobile"] = Undefined, !["username"] = Undefined]}

OddLists ==
  UNION {{[k \in 1..m |-> [id |-> k, submittedAt |-> k, status |-> "pending"] @@ f[k]] :
            f \in [1..m -> OddRecords]} : m \in 0..MaxList}

InitVerdict ==
  /\ useLocalStorage = TRUE
  /\ subscribers = <<SetSubmissions>>
  /\ documents = <<>>
  /\ settings = <<>>
  /\ store = <<>>
  /\ now = ScanClock
  /\ calls = <<>>
  /\ submissions \in OddLists
  /\ selected = NoId
  /\ qrValidationResult = ""
  /\ input \in ScannedTexts
  /\ output = Null

\* validateQRData(qrData) on the scanned text
ValidateText ==
  /\ output = Null
  /\ output' = ValidateQRData(Scanned(input), submissions, now)
  /\ UNCHANGED <<useLocalStorage, subscribers, documents, settings, store, now, calls, submissions, selected,
                 qrValidationResult, input>>

NextVerdict == ValidateText

SpecVerdict == InitVerdict /\ [][NextVerdict]_vars

\* C17: validateQRData returns a verdict and never throws, for any text, any
\* value parseQRData returns (null and JSON primitives included) and any
\* list of submissions (a name missing or no string included).
C17_AlwaysAVerdict ==
  output # Null =>
    /\ output # Thrown
    /\ output.isValid \in BOOLEAN
    /\ output.message \in {"nomatch", "expired", "discrepancy", "verified"} \cup ErrorMessages

\* C17's case: the text null was scanned against a list that holds a
\* submission, and the verdict is the one of the catch block
C17_Witness ==
  /\ input = <<"n", "u", "l", "l">>
  /\ Len(submissions) > 0
  /\ output = ErrorVerdict(TypeError)

\* C24: the failure verdict's message tells the cause: a scanned text that
\* is no URL and no valid JSON gives the 'does not contain valid JSON data'
\* message, a URL without a payload parameter gives the 'does not contain a
\* data parameter' message, and the 'Parse error' message is for the other
\* failures.
C24_MessageTellsCause ==
  (output # Null /\ ~ParseQRData(input).ok) =>
    IF NewURL(input).ok /\ NewURL(input).query = <<>>
    THEN output.message = "error: param"
    ELSE output.message = "error: json"

----------------------------------------------------------------------------
(* The status of the stored submissions along the queue's steps.  A step   *)
(* that leaves the length of the collection alone changes documents in     *)
(* place: document k before it is document k after it.                     *)

Decided == {"verified", "rejected"}

\* the step is the write of an updateSubmissionStatus that handleVerify,
\* handleReject or handleQRScan called
UIWrite ==
  \E i \in 1..Len(calls) :
    /\ calls[i].op = "update" /\ calls[i].pc = "write"
    /\ calls[i].src \in {"dialog", "scan"}
    /\ Len(calls') = Len(calls)
    /\ calls'[i].pc = "notify"

\* C18: a submission is created pending, one that has become verified or
\* rejected is never pending again, and a status changes only through the
\* updateSubmissionStatus of the admin's verify and reject and of a
\* successful QR scan.
C18_StatusLifecycle ==
  [][Len(store') = Len(store) =>
       \A k \in 1..Len(store) :
         /\ store[k].status \in Decided => store'[k].status # "pending"
         /\ store'[k].status # store[k].status => UIWrite]_vars

\* C19: the transitions the admin UI drives are monotonic: no Verify, Reject
\* or QR scan makes a verified submission rejected or a rejected one
\* verified.
C19_DecisionIsFinal ==
  [][(UIWrite /\ Len(store') = Len(store)) =>
       \A k \in 1..Len(store) :
         store[k].status \in Decided => store'[k].status = store[k].status]_vars

----------------------------------------------------------------------------
(* The submissionStore calls while the backend fails: each call as a       *)
(* whole, with the point at which the backend fails it ("none": it does    *)
(* not, "read": at the read of the collection, "write": at the write).     *)

\* FirebaseService.getAllSubmissions: the documents, or [] from its catch
\* when the read fails
GetAllSubmissions(local, items, fails) ==
  IF fails = "read" THEN <<>> ELSE Find(local, items, <<>>)

\* what a call reports: rejected, or resolved with its list (getSubmissions)
Report(call, fails, rejected, list) ==
  [call |-> call, fails |-> fails, rejected |-> rejected, list |-> list]

\* the stores of up to MaxList submissions, the one at position k with id k
OutageStores ==
  UNION {{[k \in 1..m |-> [StoredOf(f[k][1], k) EXCEPT !.status = f[k][2]]] :
            f \in [1..m -> Records \X {"pending", "verified"}]} : m \in 0..MaxList}

InitOutage ==
  /\ useLocalStorage \in BOOLEAN
  /\ subscribers = <<SetSubmissions>>
  /\ documents = <<>>
  /\ settings = <<>>
  /\ store \in OutageStores
  /\ now = MaxList + 1
  /\ calls = <<>>
  /\ submissions = <<>>
  /\ selected = NoId
  /\ qrValidationResult = ""
  /\ input = Null
  /\ output = Null

\* notifySubscribers after a call: the dashboard receives getSubmissions()
Notified(items, fails) ==
  submissions' = GetSubmissions(GetAllSubmissions(useLocalStorage, items, fails))

\* getSubmissions()
OutageGet(fails) ==
  /\ output' = Report("getSubmissions", fails, FALSE,
                      GetSubmissions(GetAllSubmissions(useLocalStorage, store, fails)))
  /\ UNCHANGED <<store, submissions>>
  /\ UNCHANGED <<useLocalStorage, subscribers, documents, settings, now, calls, selected, qrValidationResult, input>>

\* updateSubmissionStatus(submissionId, status): without a submission of the
\* id in the list it read it resolves; a failed write rejects it
OutageUpdate(submissionId, status, fails) ==
  LET all == GetAllSubmissions(useLocalStorage, store, fails)
      at == FindIndex(all, [id |-> submissionId], 1)
  IN /\ IF at = 0
        THEN /\ output' = Report("updateSubmissionStatus", fails, FALSE, <<>>)
             /\ UNCHANGED <<store, submissions>>
        ELSE IF fails = "write"
        THEN /\ output' = Report("updateSubmissionStatus", fails, TRUE, <<>>)
             /\ UNCHANGED <<store, submissions>>
        ELSE \E rand \in RandSuffixes :
               LET r == UpdateOne(useLocalStorage, store, [_id |-> StringOf(submissionId)],
                                  [all[at] EXCEPT !.status = status], now, rand)
               IN /\ store' = r.items
                  /\ output' = Report("updateSubmissionStatus", fails, ~r.ok, <<>>)
                  /\ IF r.ok THEN Notified(r.items, fails) ELSE UNCHANGED submissions
  /\ UNCHANGED <<useLocalStorage, subscribers, documents, settings, now, calls, selected, qrValidationResult, input>>

\* deleteSubmission(submissionId): a failed deleteOne rejects it
OutageDelete(submissionId, fails) ==
  /\ IF fails = "write"
     THEN /\ output' = Report("deleteSubmission", fails, TRUE, <<>>)
          /\ UNCHANGED <<store, submissions>>
     ELSE LET items == DeleteOne(useLocalStorage, store,
                                 [_id |-> StringOf(submissionId)]).items
          IN /\ store' = items
             /\ output' = Report("deleteSubmission", fails, FALSE, <<>>)
             /\ Notified(items, fails)
  /\ UNCHANGED <<useLocalStorage, subscribers, documents, settings, now, calls, selected, qrValidationResult, input>>

\* the store after deleteSubmission(submission.id) of each of the list
RECURSIVE DeleteEach(_, _, _)
DeleteEach(local, items, list) ==
  IF list = <<>> THEN items
  ELSE DeleteEach(local, DeleteOne(local, items, [_id |-> StringOf(Head(list).id)]).items,
                  Tail(list))

\* clearAllSubmissions(): it deletes the submissions of the list it read;
\* a failed deleteOne rejects it
OutageClear(fails) ==
  LET all == GetAllSubmissions(useLocalStorage, store, fails) IN
  /\ IF fails = "write" /\ all # <<>>
     THEN /\ output' = Report("clearAllSubmissions", fails, TRUE, <<>>)
          /\ UNCHANGED <<store, submissions>>
     ELSE LET items == DeleteEach(useLocalStorage, store, all) IN
          /\ store' = items
          /\ output' = Report("clearAllSubmissions", fails, FALSE, <<>>)
          /\ Notified(items, fails)
  /\ UNCHANGED <<useLocalStorage, subscribers, documents, settings, now, calls, selected, qrValidationResult, input>>

\* addSubmission(submissionData): the null of encryptSubmissionData throws,
\* a failed insertOne rejects it
OutageAdd(submissionData, fails) ==
  /\ Len(store) < MaxList
  /\ input' = submissionData
  /\ LET encryptedData == EncryptSubmissionData(submissionData) IN
     IF encryptedData.t = "null" \/ fails = "write"
     THEN /\ output' = Report("addSubmission", fails, TRUE, <<>>)
          /\ UNCHANGED <<store, submissions>>
     ELSE \E rand \in RandSuffixes :
            LET items == InsertOne(useLocalStorage, store, StoredOf(submissionData, now),
                                   now, rand).items
            IN /\ store' = items
               /\ output' = Report("addSubmission", fails, FALSE, <<>>)
               /\ Notified(items, fails)
  /\ UNCHANGED <<useLocalStorage, subscribers, documents, settings, now, calls, selected, qrValidationResult>>

NextOutage ==
  \/ \E fails \in {"none", "read"} : OutageGet(fails)
  \/ \E submissionId \in 1..MaxList, status \in {"verified", "rejected"},
        fails \in {"none", "read", "write"} : OutageUpdate(submissionId, status, fails)
  \/ \E submissionId \in 1..MaxList, fails \in {"none", "write"} :
       OutageDelete(submissionId, fails)
  \/ \E fails \in {"none", "read", "write"} : OutageClear(fails)
  \/ \E submissionData \in AddInputs, fails \in {"none", "write"} :
       OutageAdd(submissionData, fails)

SpecOutage == InitOutage /\ [][NextOutage]_vars

\* C20: a call during which the backend fails is rejected; it never
\* resolves with an empty list or as a silent no-op.
C20_FailureRejects ==
  (output # Null /\ output.fails # "none") => output.rejected

\* C22: when encryption of the record fails (encryptSubmissionData gives
\* its null) or the insert fails, addSubmission rejects, the store is as it
\* was and the subscriber is not notified.
C22_FailedAddChangesNothing ==
  [][(output'.call = "addSubmission" /\ (StringifyThrows(input') \/ output'.fails = "write"))
       => (output'.rejected /\ store' = store /\ submissions' = submissions)]_vars

\* an addSubmission of a record that cannot be encrypted, rejected with the
\* store's submissions still there
C22_Witness ==
  /\ output # Null /\ output.call = "addSubmission"
  /\ StringifyThrows(input) /\ output.fails = "none" /\ output.rejected
  /\ store # <<>>

\* C23: after deleteSubmission(id) has deleted, the store holds no submission
\* with that id and every other submission is as it was, whatever sequence
\* of operations produced the stored records.
C23_DeleteRemovesId ==
  [][(/\ Len(calls') = Len(calls) + 1
      /\ calls'[Len(calls')].op = "delete" /\ calls'[Len(calls')].pc = "notify")
       => LET submissionId == calls'[Len(calls')].id IN
          /\ FindIndex(store', [id |-> submissionId], 1) = 0
          /\ store' = SelectSeq(store, LAMBDA item : item.id # submissionId)]_vars

----------------------------------------------------------------------------
(* FirebaseService.storeDocument: the calls in flight, each at its await   *)
(* of findOne or of the write that follows.  Every write takes a           *)
(* millisecond of its own.                                                 *)

\* the storeDocument calls started in all
MaxUploads == 3

Usernames == {"u", "v"}
DocumentNames == {"A", "B"}

InitUpload ==
  /\ useLocalStorage \in BOOLEAN
  /\ subscribers = <<SetSubmissions>>
  /\ documents = <<>>
  /\ settings = <<>>
  /\ store = <<>>
  /\ now = 1
  /\ calls = <<>>
  /\ submissions = <<>>
  /\ selected = NoId
  /\ qrValidationResult = ""
  /\ input = Null
  /\ output = Null

\* storeDocument(username, documentData) up to its await of findOne
StoreDocument(username, documentData) ==
  /\ now + Len(calls) <= MaxUploads
  /\ calls' = Append(calls, [op |-> "storeDocument", pc |-> "findOne", username |-> username,
                              documentData |-> documentData,
                              existing |-> [found |-> FALSE]])
  /\ UNCHANGED <<useLocalStorage, subscribers, documents, settings, store, now, submissions, selected,
                 qrValidationResult, pure>>

\* const existing = await _executeOperation('documents', 'findOne', { username })
StoreFindOne(i) ==
  /\ calls[i].op = "storeDocument" /\ calls[i].pc = "findOne"
  /\ calls' = [calls EXCEPT ![i].pc = "write",
                            ![i].existing = FindOne(useLocalStorage, documents,
                                                    [username |-> calls[i].username])]
  /\ UNCHANGED <<useLocalStorage, subscribers, documents, settings, store, now, submissions, selected,
                 qrValidationResult, pure>>

\* the write: updateOne({ username }, { $set: ... }) if a document existed,
\* insertOne otherwise; the call is over
StoreWrite(i) ==
  /\ calls[i].op = "storeDocument" /\ calls[i].pc = "write"
  /\ LET documentRecord == [username |-> calls[i].username, uploadedAt |-> now,
                            updatedAt |-> now] @@ calls[i].documentData
         existing == calls[i].existing
     IN \E rand \in RandSuffixes :
          documents' =
            IF existing.found
            THEN UpdateOne(useLocalStorage, documents, [username |-> calls[i].username],
                           [createdAt |-> existing.doc.createdAt] @@ documentRecord,
                           now, rand).items
            ELSE InsertOne(useLocalStorage, documents,
                           [createdAt |-> now] @@ documentRecord, now, rand).items
  /\ now' = now + 1
  /\ calls' = RemoveAt(calls, i)
  /\ UNCHANGED <<useLocalStorage, subscribers, settings, store, submissions, selected,
                 qrValidationResult, pure>>

NextUpload ==
  \/ \E username \in Usernames, name \in DocumentNames :
       StoreDocument(username, [name |-> name])
  \/ \E i \in 1..Len(calls) : StoreFindOne(i)
  \/ \E i \in 1..Len(calls) : StoreWrite(i)

SpecUpload == InitUpload /\ [][NextUpload]_vars

\* C21: after any interleaving of storeDocument calls, two overlapping
\* calls for one username included, the documents collection holds at most
\* one record per username.
C21_OneRecordPerUser ==
  \A k1, k2 \in 1..Len(documents) :
    documents[k1].username = documents[k2].username => k1 = k2

----------------------------------------------------------------------------
(* Two updateSubmissionStatus calls side by side, on the stores the queue   *)
(* can hold: the submissions of two addSubmission calls, and what a         *)
(* deleteSubmission between the read and the write of an earlier            *)
(* updateSubmissionStatus left behind.                                      *)

\* the updateSubmissionStatus calls started in all
MaxUpdates == 2

\* addSubmission(RecA) at 1 and addSubmission(RecB) at 2
AddedStore == <<StoredOf(RecA, 1), StoredOf(RecB, 2)>>

\* AddedStore after updateSubmissionStatus(1, 'verified') read it,
\* deleteSubmission(1) deleted and the update wrote, at 3
RacedStore(local) ==
  UpdateOne(local, DeleteOne(local, AddedStore, [_id |-> StringOf(1)]).items,
            [_id |-> StringOf(1)], [AddedStore[1] EXCEPT !.status = "verified"],
            3, <<"r">>).items

\* input is the store the calls began with, output the calls as they began
InitUpdates ==
  /\ useLocalStorage \in BOOLEAN
  /\ subscribers = <<SetSubmissions>>
  /\ documents = <<>>
  /\ settings = <<>>
  /\ store \in {AddedStore, RacedStore(useLocalStorage)}
  /\ now = 4
  /\ calls = <<>>
  /\ submissions = <<>>
  /\ selected = NoId
  /\ qrValidationResult = ""
  /\ input = store
  /\ output = <<>>

\* submissionStore.updateSubmissionStatus(submissionId, status) up to its await
UpdateSubmissionStatus(submissionId, status) ==
  /\ Len(calls) < MaxInFlight /\ Len(output) < MaxUpdates
  /\ now' = now + 1
  /\ calls' = Append(calls, Call("update", "read", submissionId, status, NoDoc, "api", Null))
  /\ output' = Append(output, [id |-> submissionId, status |-> status])
  /\ UNCHANGED <<useLocalStorage, subscribers, documents, settings, store, submissions, selected,
                 qrValidationResult, input>>

NextUpdates ==
  \/ \E submissionId \in 1..2, status \in {"verified", "rejected"} :
       UpdateSubmissionStatus(submissionId, status)
  \/ \E i \in 1..Len(calls) : UpdateRead(i)
  \/ \E i \in 1..Len(calls) : UpdateWrite(i)
  \/ \E i \in 1..Len(calls) : NotifyRead(i)
  \/ \E i \in 1..Len(calls) : Deliver(i)

SpecUpdates == InitUpdates /\ [][NextUpdates]_vars

\* the status of the stored submission with the id
StatusOf(items, submissionId) == items[FindIndex(items, [id |-> submissionId], 1)].status

\* C25: of two updateSubmissionStatus calls that overlap, no record is added
\* or removed and every record keeps all but its status; once both are
\* over, calls on different ids have both made their change, and calls on
\* one id have left the status one of them asked for.
C25_OverlappingUpdates ==
  /\ Len(store) = Len(input)
  /\ \A k \in 1..Len(store) : [store[k] EXCEPT !.status = ""] = [input[k] EXCEPT !.status = ""]
  /\ (Len(output) = 2 /\ calls = <<>>) =>
       \A c \in {output[1], output[2]} :
         FindIndex(input, [id |-> c.id], 1) # 0 =>
           IF output[1].id # output[2].id
           THEN StatusOf(store, c.id) = c.status
           ELSE StatusOf(store, c.id) \in {output[1].status, output[2].status}

----------------------------------------------------------------------------
(* submissionStore.subscribe and the unsubscribe functions it returns.      *)
(* input holds the returned functions, each with its callback and the       *)
(* number of times it was called; output is the list of the callbacks the   *)
(* last notification invoked.                                               *)

\* the subscribe calls in all, and the calls of one unsubscribe function
MaxSubscribes == 2
MaxUnsubscribes == 2

Callbacks == {"f", "g"}

InitSubscribe ==
  /\ useLocalStorage = TRUE
  /\ subscribers = <<>>
  /\ documents = <<>>
  /\ settings = <<>>
  /\ store = <<>>
  /\ now = 1
  /\ calls = <<>>
  /\ submissions = <<>>
  /\ selected = NoId
  /\ qrValidationResult = ""
  /\ input = <<>>
  /\ output = <<>>

\* subscribe(callback): subscribers.push(callback), the closure is returned
Subscribe(callback) ==
  /\ Len(input) < MaxSubscribes
  /\ subscribers' = Append(subscribers, callback)
  /\ input' = Append(input, [callback |-> callback, called |-> 0])
  /\ UNCHANGED <<useLocalStorage, documents, settings, store, now, calls, submissions,
                 selected, qrValidationResult, output>>

\* subscribers.indexOf(callback), 0 for its -1
IndexOfCallback(callback) ==
  IF \E k \in 1..Len(subscribers) : subscribers[k] = callback
  THEN CHOOSE k \in 1..Len(subscribers) :
         subscribers[k] = callback /\ \A j \in 1..(k - 1) : subscribers[j] # callback
  ELSE 0

\* the unsubscribe function input[h]: indexOf(callback), splice(index, 1)
Unsubscribe(h) ==
  /\ input[h].called < MaxUnsubscribes
  /\ LET index == IndexOfCallback(input[h].callback) IN
     subscribers' = IF index > 0 THEN RemoveAt(subscribers, index) ELSE subscribers
  /\ input' = [input EXCEPT ![h].called = @ + 1]
  /\ UNCHANGED <<useLocalStorage, documents, settings, store, now, calls, submissions,
                 selected, qrValidationResult, output>>

\* notifySubscribers up to its await of getSubmissions
NotifySubscribers ==
  /\ Len(calls) < MaxCalls
  /\ calls' = Append(calls, [Call("notify", "deliver", NoId, "", NoDoc, "api", Null)
                               EXCEPT !.snap = GetSubmissions(store)])
  /\ UNCHANGED <<useLocalStorage, subscribers, documents, settings, store, now, submissions,
                 selected, qrValidationResult, pure>>

\* notifySubscribers: subscribers.forEach(callback => callback(submissions))
ForEachSubscriber(i) ==
  /\ calls[i].op = "notify" /\ calls[i].pc = "deliver"
  /\ output' = subscribers
  /\ calls' = RemoveAt(calls, i)
  /\ UNCHANGED <<useLocalStorage, subscribers, documents, settings, store, now, submissions,
                 selected, qrValidationResult, input>>

NextSubscribe ==
  \/ \E callback \in Callbacks : Subscribe(callback)
  \/ \E h \in 1..Len(input) : Unsubscribe(h)
  \/ NotifySubscribers
  \/ \E i \in 1..Len(calls) : ForEachSubscriber(i)

SpecSubscribe == InitSubscribe /\ [][NextSubscribe]_vars

\* the registrations of the callback: in the list, and not yet unsubscribed
Registered(callback) ==
  Cardinality({k \in 1..Len(subscribers) : subscribers[k] = callback})
Held(callback) ==
  Cardinality({h \in 1..Len(input) : input[h].callback = callback /\ input[h].called = 0})

\* C26: an unsubscribe function, called any number of times, removes the
\* registration it was returned for and no other one, also when one
\* callback was subscribed more than once: a callback is in the list once
\* for each of its unsubscribe functions that was never called.
C26_UnsubscribeRemovesOwn ==
  \A callback \in Callbacks : Registered(callback) = Held(callback)

----------------------------------------------------------------------------
(* getSubmissions and the updateSubmissionStatus the dashboard calls with   *)
(* the id of an entry, on stores whose records may have an id of their own. *)
(* output holds the entries the dashboard received and the entry it         *)
(* decided last.                                                            *)

\* the record with a property id of its own
WithId(rec, id) == [id |-> id] @@ rec

\* records without an id, with the id of the second submission, and with an
\* id no submission has
EntryRecords == {RecA, RecB, WithId(RecA, 2), WithId(RecB, 7)}

\* the stores of up to MaxList submissions, the one at position k added at k
EntryStores ==
  UNION {{[k \in 1..m |-> StoredOf(f[k], k)] : f \in [1..m -> EntryRecords]} : m \in 0..MaxList}

NoEntries == [listed |-> FALSE, entries |-> <<>>, decided |-> 0, status |-> ""]

InitEntries ==
  /\ useLocalStorage \in BOOLEAN
  /\ subscribers = <<SetSubmissions>>
  /\ documents = <<>>
  /\ settings = <<>>
  /\ store \in EntryStores
  /\ now = MaxList + 1
  /\ calls = <<>>
  /\ submissions = <<>>
  /\ selected = NoId
  /\ qrValidationResult = ""
  /\ input = Null
  /\ output = NoEntries

\* loadSubmissions: setSubmissions(await submissionStore.getSubmissions())
ListEntries ==
  /\ ~output.listed
  /\ submissions' = GetSubmissions(store)
  /\ output' = [output EXCEPT !.listed = TRUE, !.entries = GetSubmissions(store)]
  /\ UNCHANGED <<useLocalStorage, subscribers, documents, settings, store, now, calls,
                 selected, qrValidationResult, input>>

\* handleVerify / handleReject on entry k:
\* submissionStore.updateSubmissionStatus(selected.id, status), up to its write
DecideEntry(k, status) ==
  /\ output.listed /\ output.decided = 0
  /\ LET submissionId == output.entries[k].id
         at == FindIndex(store, [id |-> submissionId], 1)
     IN IF at = 0 THEN UNCHANGED store
        ELSE \E rand \in RandSuffixes :
               store' = UpdateOne(useLocalStorage, store, [_id |-> StringOf(submissionId)],
                                  [store[at] EXCEPT !.status = status], now, rand).items
  /\ output' = [output EXCEPT !.decided = k, !.status = status]
  /\ UNCHANGED <<useLocalStorage, subscribers, documents, settings, now, calls, submissions,
                 selected, qrValidationResult, input>>

NextEntries ==
  \/ ListEntries
  \/ \E k \in 1..Len(output.entries), status \in {"verified", "rejected"} :
       DecideEntry(k, status)

SpecEntries == InitEntries /\ [][NextEntries]_vars

\* C29: every entry getSubmissions returns has the id, the status and the
\* submittedAt of its stored submission, also for a record that has such a
\* field itself, so that updateSubmissionStatus(entry.id, s) changes the
\* status of the stored submission the entry came from, and of no other.
C29_EntryKeepsEnvelope ==
  /\ output.listed =>
       \A k \in 1..Len(output.entries) :
         /\ output.entries[k].id = k
         /\ output.entries[k].submittedAt = k
  /\ output.decided # 0 =>
       \A k \in 1..Len(store) :
         store[k].status = IF k = output.decided THEN output.status ELSE "pending"

----------------------------------------------------------------------------
(* The QR code a user generates from the document with the attributes       *)
(* selected, scanned by the dashboard while the user's submission is in its *)
(* list.  input is the payload the code carries, with the selection it was  *)
(* generated for.                                                           *)

\* the attributes of the generate dialog
Selectable == {"name", "age", "address"}

\* selectedAttributes with at least one attribute selected
Selections == [Selectable -> BOOLEAN] \ {[a \in Selectable |-> FALSE]}

\* the dashboard's lists of the submissions of RecA and RecB
QueueLists ==
  {[k \in 1..Len(recs) |-> Entry(StoredOf(recs[k], k))] :
     recs \in {<<RecA>>, <<RecB>>, <<RecA, RecB>>, <<RecB, RecA>>}}

\* filteredQrData of generateCustomVerificationQR, as parseQRData returns it
\* from the verification URL: the five fields, address when it is selected,
\* verifiedAt, and no verificationRequested (docType and age, which
\* validateQRData does not read, are left out)
FilteredQrData(documentData, selectedAttributes, clock) ==
  PayloadOf([documentData EXCEPT
               !["address"] = IF selectedAttributes["address"] THEN @ ELSE Undefined],
            TRUE, clock, NoRequest)

InitGenerate ==
  /\ useLocalStorage = TRUE
  /\ subscribers = <<SetSubmissions>>
  /\ documents = <<>>
  /\ settings = <<>>
  /\ store = <<>>
  /\ now = 1
  /\ calls = <<>>
  /\ submissions \in QueueLists
  /\ selected = NoId
  /\ qrValidationResult = ""
  /\ input = Null
  /\ output = Null

\* handleGenerateQR: generateCustomVerificationQR(documentData, selectedAttributes)
GenerateCustomVerificationQR(documentData, selectedAttributes) ==
  /\ input = Null
  /\ \E k \in 1..Len(submissions) : submissions[k].username = documentData.username
  /\ input' = [ok |-> TRUE, data |-> FilteredQrData(documentData, selectedAttributes, now),
                selectedAttributes |-> selectedAttributes]
  /\ UNCHANGED <<useLocalStorage, subscribers, documents, settings, store, now, calls,
                 submissions, selected, qrValidationResult, output>>

\* validateQRData on the generated code
ScanGenerated ==
  /\ input # Null /\ output = Null
  /\ output' = ValidateQRData(input, submissions, now)
  /\ UNCHANGED <<useLocalStorage, subscribers, documents, settings, store, now, calls,
                 submissions, selected, qrValidationResult, input>>

NextGenerate ==
  \/ Tick
  \/ \E documentData \in Records, selectedAttributes \in Selections :
       GenerateCustomVerificationQR(documentData, selectedAttributes)
  \/ ScanGenerated

SpecGenerate == InitGenerate /\ [][NextGenerate]_vars

\* C30: for a QR code generated from a user's document with the selected
\* attributes S and scanned while that user's submission is in the queue,
\* the displayed attribute verdict has exactly the attributes of S, and the
\* payload carries the address only when address is in S.
C30_DisplayedIsSelection ==
  output # Null =>
    /\ Displayed(output) = {a \in Selectable : input.selectedAttributes[a]}
    /\ (input.data.address # Undefined) = input.selectedAttributes["address"]

====
